---- MODULE Spec2Model ----
(***************************************************************************)
(* Frame loop, swapchain recreation and GPU synchronisation of             *)
(* HelloTriangleApplication (src/main.cpp).                                *)
(*                                                                         *)
(* The host thread is modelled by its position pc inside mainLoop,         *)
(* drawFrame, recreateSwapchain and cleanup.  The graphics queue and the   *)
(* presentation engine run asynchronously: GpuComplete and PresentExec     *)
(* interleave freely with the host steps.                                  *)
(***************************************************************************)
EXTENDS Integers, Sequences, FiniteSets, TLC

\* ------------------------------------------------------------------ bounds

\* program constant: frames in flight (main.cpp:216)
MAX_FRAMES_IN_FLIGHT == 2

\* bound: number of things the environment may do to the program in one run:
\* window events (resize, close) and Vulkan calls that return anything but
\* VK_SUCCESS
MaxEvents == 2

\* largest mipLevels argument and largest texture side tried
MaxMipLevels == 3

MaxTexSize == 4

\* largest framebuffer side and largest surface extent bound chooseSwapExtent
\* is tried with
MaxFramebufferSize == 4

MaxSurfaceExtent == 3

\* largest minImageCount and maxImageCount a surface is tried with
MaxImageCount == 10

\* longest list of surface formats tried
MaxFormats == 3

\* largest number of physical devices enumerated
MaxDevices == 2

\* largest memoryTypeCount tried
MaxMemoryTypes == 3
MaxFaceVertices == 3

Slots == 0 .. (MAX_FRAMES_IN_FLIGHT - 1)

\* image counts a swapchain is created with: as many as there are frames in
\* flight, or one more (createSwapChain asks for minImageCount + 1 images)
ImageCounts == {MAX_FRAMES_IN_FLIGHT, MAX_FRAMES_IN_FLIGHT + 1}

\* drawable sizes the window reports: zero in both, in one, in no dimension
WindowSizes == {<<0, 0>>, <<0, 1>>, <<1, 0>>, <<1, 1>>, <<2, 1>>}

\* the largest extent the surface supports when the extent is up to the
\* application
MaxExtent == <<2, 2>>

\* std::numeric_limits<uint32_t>::max(), the "extent is up to the application"
\* marker of VkSurfaceCapabilitiesKHR::currentExtent.width: 0xFFFFFFFF, the
\* 32-bit pattern of -1 (the model's integers are 32-bit signed)
UINT32_MAX == -1

\* uint32_t imageIndex before vkAcquireNextImageKHR has written it
NoImage == -1

\* ----------------------------------------------------------------- objects

\* A Vulkan object: its kind, the createSwapChain call it belongs to (0 for
\* the objects that are created once), its position in its array, and the
\* objects its create info names.
Obj(kind, gen, idx, from) ==
    [kind |-> kind, gen |-> gen, idx |-> idx, from |-> from]

NoObj == Obj("null", 0, 0, {})

Range(a) == {a[i] : i \in DOMAIN a}

renderPass == Obj("renderPass", 0, 0, {})

textureImageView == Obj("textureImageView", 0, 0, {Obj("textureImage", 0, 0, {})})

textureSampler == Obj("textureSampler", 0, 0, {})

\* createUniformBuffers: one buffer and one allocation per slot
uniformBuffers == [f \in Slots |-> Obj("uniformBuffer", 0, f, {})]

uniformBuffersMemory == [f \in Slots |-> Obj("uniformBufferMemory", 0, f, {})]

\* createDescriptorSets: set i is written with uniformBuffers[i] and the
\* texture's view and sampler
descriptorSets ==
    [i \in Slots |->
        Obj("descriptorSet", 0, i, {uniformBuffers[i], textureImageView, textureSampler})]

\* objects created once by initVulkan and destroyed by cleanup
PerSlotObjects ==
    UNION {{uniformBuffers[f], uniformBuffersMemory[f], descriptorSets[f],
            Obj("commandBuffer", 0, f, {}),
            Obj("imageAvailableSemaphore", 0, f, {}),
            Obj("renderFinishedSemaphore", 0, f, {}),
            Obj("inFlightFence", 0, f, {})} : f \in Slots}

PersistentObjects ==
    {Obj(k, 0, 0, {}) :
        k \in {"textureImage", "textureImageMemory", "descriptorPool",
               "descriptorSetLayout", "vertexBuffer", "vertexBufferMemory",
               "indexBuffer", "indexBufferMemory", "graphicsPipeline",
               "pipelineLayout", "commandPool", "device"}}
    \cup {renderPass, textureImageView, textureSampler}
    \cup PerSlotObjects

\* ------------------------------------------------------------------- state

VARIABLES
    \* host control
    pc,                     \* position of the host thread
    retTo,                  \* call site recreateSwapchain returns to
    currentFrame,           \* uint32_t currentFrame
    framebufferResized,     \* bool framebufferResized
    imageIndex,             \* drawFrame's local imageIndex
    width, height,          \* recreateSwapchain's locals
    \* window collaborator
    winW, winH,             \* drawable size (0 = minimized in that dimension)
    shouldClose,            \* glfwWindowShouldClose
    events,                 \* window events and failing calls the environment has left
    \* swapchain-dependent members
    swapChain, swapChainImages, swapChainImageViews, swapChainFramebuffers,
    swapChainExtent,
    colorImage, colorImageMemory, colorImageView,
    depthImage, depthImageMemory, depthImageView,
    created,                \* number of createSwapChain calls made so far
    live,                   \* objects created and not yet destroyed
    \* per-slot members and device state
    inFlightFences,         \* slot -> fence is signaled
    imageAvailableSemaphores, \* slot -> "unsignaled" | "signaled"
    renderFinishedSemaphores, \* slot -> "unsignaled" | "signaled"
    commandBuffers,         \* slot -> recorded contents
    uniformBuffersMappped,  \* slot -> "unwritten" | "ubo": what the mapping holds
    imageState,             \* image index -> "avail" | "acquired" | "queued"
    graphicsQueue,          \* submitted batches the GPU has not completed
    presentQueue,           \* present requests the engine has not executed
    \* history
    log,                    \* operations of the current drawFrame call
    everSubmitted,          \* slot -> a batch was submitted with its fence
    transients,             \* out-of-date / suboptimal results drawFrame has handled
    \* initVulkan and its one-time command buffers
    spc,                    \* position inside initVulkan's texture setup
    oper,                   \* the function that owns the one-time command buffer
    sret,                   \* position the running operation returns to
    oldLayout, newLayout,   \* transitionImageLayout's arguments
    texWidth, texHeight,    \* size of the loaded texture
    mipLevels,              \* uint32_t mipLevels
    mipWidth, mipHeight,    \* generateMipmaps' locals
    mipIndex,               \* generateMipmaps' loop variable i
    formatLinear,           \* the format supports linear-filter blits
    singleTime,             \* the one-time command buffer: state and commands
    layouts,                \* mip level -> layout the texture level is in
    layoutHazard,           \* an executed command named a layout the level was not in
    stagingBuffer,          \* "none" | "live" | "destroyed"
    descriptorsWritten,     \* vkUpdateDescriptorSets has named the texture view
    setupLog,               \* queue submissions made so far, each a command list
    \* a call of chooseSwapExtent on its own
    details,                \* createSwapChain's details.capabilities: the
                            \* argument, NoCapabilities outside the call
    \* a call of one of the functions without effects, on its own
    args,                   \* the function called and its arguments
    ret                     \* what it returned, NoReturn before it has

hostVars == <<pc, retTo, currentFrame, framebufferResized, imageIndex, width, height>>

windowVars == <<winW, winH, shouldClose, events>>

swapVars ==
    <<swapChain, swapChainImages, swapChainImageViews, swapChainFramebuffers,
      swapChainExtent, colorImage, colorImageMemory, colorImageView,
      depthImage, depthImageMemory, depthImageView, created, live>>

syncVars == <<inFlightFences, imageAvailableSemaphores, renderFinishedSemaphores>>

gpuVars ==
    <<commandBuffers, uniformBuffersMappped, imageState, graphicsQueue, presentQueue>>

histVars == <<log, everSubmitted, transients>>

frameVars == <<hostVars, windowVars, swapVars, syncVars, gpuVars, histVars>>

setupVars ==
    <<spc, oper, sret, oldLayout, newLayout, texWidth, texHeight, mipLevels,
      mipWidth, mipHeight, mipIndex, formatLinear, singleTime, layouts,
      layoutHazard, stagingBuffer, descriptorsWritten, setupLog>>

callVars == <<details, args, ret>>

vars == <<frameVars, setupVars, callVars>>

\* --------------------------------------------------- swapchain construction

\* mutant: std::clamp with no upper bound
Clamp_NoUpper(v, lo, hi) == IF v < lo THEN lo ELSE v

\* std::clamp(v, lo, hi)
Clamp(v, lo, hi) == IF v < lo THEN lo ELSE IF hi < v THEN hi ELSE v

\* no function is being called on its own, and nothing has been returned
NoCall == [fn |-> "none"]

NoReturn == [thrown |-> FALSE, value |-> "none"]

\* a function returns v; a function throws
Value(v) == [thrown |-> FALSE, value |-> v]

Thrown == [thrown |-> TRUE, value |-> "none"]

\* no VkSurfaceCapabilitiesKHR is held
NoCapabilities ==
    [currentExtent |-> <<0, 0>>, minImageExtent |-> <<0, 0>>, maxImageExtent |-> <<0, 0>>]

\* chooseSwapExtent: the surface's currentExtent unless its width is the
\* marker, else the framebuffer size clamped into [minImageExtent, maxImageExtent]
chooseSwapExtent(capabilities, w, h) ==
    IF capabilities.currentExtent[1] # UINT32_MAX
    THEN capabilities.currentExtent
    ELSE <<Clamp(w, capabilities.minImageExtent[1], capabilities.maxImageExtent[1]),
           Clamp(h, capabilities.minImageExtent[2], capabilities.maxImageExtent[2])>>

\* what vkGetPhysicalDeviceSurfaceCapabilitiesKHR may report for a window of
\* size w x h
SurfaceCapabilities(w, h) ==
    {[currentExtent |-> <<UINT32_MAX, UINT32_MAX>>, minImageExtent |-> <<1, 1>>,
      maxImageExtent |-> MaxExtent],
     [currentExtent |-> <<w, h>>, minImageExtent |-> <<w, h>>,
      maxImageExtent |-> <<w, h>>]}

\* vkCreateSwapchainKHR and vkGetSwapchainImagesKHR: a fresh swapchain that
\* owns n images
NewSwapChain(g) == Obj("swapchain", g, 0, {})

NewSwapChainImages(sc, n) ==
    [i \in 0 .. (n - 1) |-> Obj("swapChainImage", sc.gen, i, {sc})]

\* createImageViews: one view per swapchain image, in order
NewImageViews(images) ==
    [i \in DOMAIN images |-> Obj("swapChainImageView", images[i].gen, i, {images[i]})]

\* createImage + createImageView of createColorResources / createDepthResources
NewAttachment(name, g) ==
    LET image  == Obj(name \o "Image", g, 0, {})
        memory == Obj(name \o "ImageMemory", g, 0, {})
        view   == Obj(name \o "ImageView", g, 0, {image})
    IN  [image |-> image, memory |-> memory, view |-> view]

\* mutant: every framebuffer wraps the first swapchain image view
NewFramebuffers_FirstView(views, colorView, depthView, g) ==
    [i \in DOMAIN views |->
        Obj("framebuffer", g, i, {colorView, depthView, views[0], renderPass})]

\* createFramebuffers: framebuffer i wraps the color view, the depth view and
\* swapchain image view i, for the render pass
NewFramebuffers(views, colorView, depthView, g) ==
    [i \in DOMAIN views |->
        Obj("framebuffer", g, i, {colorView, depthView, views[i], renderPass})]

\* mutant: the fences are created without VK_FENCE_CREATE_SIGNALED_BIT
FenceCreatedSignaled_Unsignaled == FALSE

\* createSyncObjects: VK_FENCE_CREATE_SIGNALED_BIT
FenceCreatedSignaled == TRUE

EmptyCommandBuffer ==
    [state |-> "initial", framebuffer |-> NoObj, descriptorSet |-> NoObj, cmds |-> <<>>]

\* VkImageLayout values the program names
Layouts ==
    {"UNDEFINED", "TRANSFER_DST_OPTIMAL", "TRANSFER_SRC_OPTIMAL",
     "SHADER_READ_ONLY_OPTIMAL", "COLOR_ATTACHMENT_OPTIMAL",
     "DEPTH_STENCIL_ATTACHMENT_OPTIMAL", "PRESENT_SRC_KHR"}

\* a one-time command buffer that is not allocated
NoSingleTime == [state |-> "none", cmds |-> <<>>]

\* floor(log2(n)) for n >= 1
RECURSIVE FloorLog2(_)
FloorLog2(n) == IF n <= 1 THEN 0 ELSE 1 + FloorLog2(n \div 2)

\* mutant: the smaller side decides
MipLevelsOf_Min(w, h) == FloorLog2(IF w < h THEN w ELSE h) + 1

\* createTextureImage: mipLevels = floor(log2(max(texWidth, texHeight))) + 1
MipLevelsOf(w, h) == FloorLog2(IF w > h THEN w ELSE h) + 1

\* what initVulkan leaves of the texture setup when it returns: every level
\* of the texture sampled by the shaders, no one-time command buffer, no
\* staging buffer, locals gone
SetupDone(w, h) ==
    /\ spc = "s_done"
    /\ oper = "none"
    /\ sret = "none"
    /\ oldLayout = "UNDEFINED"
    /\ newLayout = "UNDEFINED"
    /\ texWidth = w
    /\ texHeight = h
    /\ mipLevels = MipLevelsOf(w, h)
    /\ mipWidth = 0
    /\ mipHeight = 0
    /\ mipIndex = 0
    /\ formatLinear = TRUE
    /\ singleTime = NoSingleTime
    /\ layouts = [l \in 0 .. (MipLevelsOf(w, h) - 1) |-> "SHADER_READ_ONLY_OPTIMAL"]
    /\ layoutHazard = FALSE
    /\ stagingBuffer = "destroyed"
    /\ descriptorsWritten = TRUE
    /\ setupLog = <<>>

\* objects initVulkan creates after createTextureImage has returned
CreatedAfterTexture ==
    {Obj(k, 0, 0, {}) :
        k \in {"descriptorPool", "vertexBuffer", "vertexBufferMemory",
               "indexBuffer", "indexBufferMemory"}}
    \cup {textureImageView, textureSampler}
    \cup PerSlotObjects

\* the members the swapchain part of initVulkan has set, with the host at
\* position start and the objects of the set persistent created
FrameInit(start, persistent) ==
    \E n \in ImageCounts, size \in {<<1, 1>>} :
    \E capabilities \in SurfaceCapabilities(size[1], size[2]) :
      LET sc     == NewSwapChain(1)
          images == NewSwapChainImages(sc, n)
          views  == NewImageViews(images)
          color  == NewAttachment("color", 1)
          depth  == NewAttachment("depth", 1)
          fbs    == NewFramebuffers(views, color.view, depth.view, 1)
      IN  /\ pc = start
          /\ retTo = "none"
          /\ currentFrame = 0
          /\ framebufferResized = FALSE
          /\ imageIndex = NoImage
          /\ width = 0
          /\ height = 0
          /\ winW = size[1]
          /\ winH = size[2]
          /\ shouldClose = FALSE
          /\ events = MaxEvents
          /\ swapChain = sc
          /\ swapChainImages = images
          /\ swapChainImageViews = views
          /\ swapChainFramebuffers = fbs
          /\ swapChainExtent = chooseSwapExtent(capabilities, size[1], size[2])
          /\ colorImage = color.image
          /\ colorImageMemory = color.memory
          /\ colorImageView = color.view
          /\ depthImage = depth.image
          /\ depthImageMemory = depth.memory
          /\ depthImageView = depth.view
          /\ created = 1
          /\ live = persistent \cup {sc} \cup Range(images) \cup Range(views)
                      \cup {color.image, color.memory, color.view}
                      \cup {depth.image, depth.memory, depth.view} \cup Range(fbs)
          /\ inFlightFences = [f \in Slots |-> FenceCreatedSignaled]
          /\ imageAvailableSemaphores = [f \in Slots |-> "unsignaled"]
          /\ renderFinishedSemaphores = [f \in Slots |-> "unsignaled"]
          /\ commandBuffers = [f \in Slots |-> EmptyCommandBuffer]
          /\ uniformBuffersMappped = [f \in Slots |-> "unwritten"]
          /\ imageState = [i \in DOMAIN images |-> "avail"]
          /\ graphicsQueue = <<>>
          /\ presentQueue = <<>>
          /\ log = <<>>
          /\ everSubmitted = [f \in Slots |-> FALSE]
          /\ transients = 0

\* the state initVulkan leaves: one swapchain generation, the texture of one
\* level ready, nothing submitted
Init ==
    /\ FrameInit("loop", PersistentObjects)
    /\ SetupDone(1, 1)
    /\ details = NoCapabilities
    /\ args = NoCall
    /\ ret = NoReturn

\* ------------------------------------------------------------ window events

\* a log entry: the call, its two index arguments and its VkResult
OpR(op, a, b, res) == [op |-> op, a |-> a, b |-> b, res |-> res]

Op(op, a, b) == OpR(op, a, b, "")

\* the resize brings a minimised window back to a drawable size
Restores(w, h) == (winW = 0 \/ winH = 0) /\ w # 0 /\ h # 0

\* framebufferResizeCallback: the window reports a new drawable size.  Every
\* resize counts against the event budget, except the one that restores a
\* minimised window.
ResizeEvent(w, h) ==
    /\ <<w, h>> # <<winW, winH>>
    /\ IF Restores(w, h)
       THEN events' = events
       ELSE events > 0 /\ events' = events - 1
    /\ winW' = w
    /\ winH' = h
    /\ framebufferResized' = TRUE
    /\ UNCHANGED shouldClose

\* the user asks to close the window
CloseEvent ==
    /\ events > 0
    /\ ~shouldClose
    /\ shouldClose' = TRUE
    /\ events' = events - 1
    /\ UNCHANGED <<winW, winH, framebufferResized>>

\* an event that changes nothing the program reads (or no event at all)
NoEvent == UNCHANGED <<winW, winH, framebufferResized, events, shouldClose>>

\* ---------------------------------------------------------------- mainLoop

\* while (!glfwWindowShouldClose(window)); on exit vkDeviceWaitIdle follows
MainLoopTest ==
    /\ pc = "loop"
    /\ pc' = IF shouldClose THEN "idle" ELSE "poll"
    /\ log' = <<>>
    /\ UNCHANGED <<retTo, currentFrame, framebufferResized, imageIndex, width, height,
                   windowVars, swapVars, syncVars, gpuVars, everSubmitted, transients>>
    /\ UNCHANGED <<setupVars, callVars>>

\* glfwPollEvents, then drawFrame is entered
PollEvents ==
    /\ pc = "poll"
    /\ \/ NoEvent
       \/ CloseEvent
       \/ \E size \in WindowSizes : ResizeEvent(size[1], size[2])
    /\ pc' = "wait"
    /\ imageIndex' = NoImage
    /\ UNCHANGED <<retTo, currentFrame, width, height, swapVars, syncVars, gpuVars,
                   histVars>>
    /\ UNCHANGED <<setupVars, callVars>>

\* --------------------------------------------------------------- drawFrame

\* mutant: the wait returns whether or not the fence is signaled
FenceWaitReturns_NoWait(f) == TRUE

\* vkWaitForFences(inFlightFences[f], UINT64_MAX) returns once the fence is signaled
FenceWaitReturns(f) == inFlightFences[f]

WaitForFences ==
    /\ pc = "wait"
    /\ FenceWaitReturns(currentFrame)
    /\ pc' = "acquire"
    /\ log' = Append(log, Op("vkWaitForFences", currentFrame, 0))
    /\ UNCHANGED <<retTo, currentFrame, framebufferResized, imageIndex, width, height,
                   windowVars, swapVars, syncVars, gpuVars, everSubmitted, transients>>
    /\ UNCHANGED <<setupVars, callVars>>

\* mutant: out-of-date is not recognised and the frame goes on
AfterAcquire_IgnoreOutOfDate(res) ==
    IF res = "VK_ERROR_DEVICE_LOST" THEN "throw" ELSE "continue"

\* mutant: out-of-date at acquire is an error like any other
AfterAcquire_OutOfDateThrows(res) ==
    IF res # "VK_SUCCESS" /\ res # "VK_SUBOPTIMAL_KHR" THEN "throw" ELSE "continue"

\* mutant: only a plain success lets the frame go on
AfterAcquire_SuboptimalThrows(res) ==
    IF res = "VK_ERROR_OUT_OF_DATE_KHR"
    THEN "recreate"
    ELSE IF res # "VK_SUCCESS" THEN "throw" ELSE "continue"

\* the branch after vkAcquireNextImageKHR
AfterAcquire(res) ==
    IF res = "VK_ERROR_OUT_OF_DATE_KHR"
    THEN "recreate"
    ELSE IF res # "VK_SUCCESS" /\ res # "VK_SUBOPTIMAL_KHR" THEN "throw" ELSE "continue"

\* vkAcquireNextImageKHR(swapChain, UINT64_MAX, imageAvailableSemaphores[f]) and
\* the branch on its result.  VK_SUCCESS and VK_SUBOPTIMAL_KHR hand out an
\* available image and queue the signal of the semaphore; the errors hand out
\* nothing and leave imageIndex unwritten.
AcquireNextImage ==
    /\ pc = "acquire"
    /\ \E res \in {"VK_SUCCESS", "VK_SUBOPTIMAL_KHR", "VK_ERROR_OUT_OF_DATE_KHR",
                    "VK_ERROR_DEVICE_LOST"} :
       \E i \in IF res \in {"VK_SUCCESS", "VK_SUBOPTIMAL_KHR"}
                THEN {k \in DOMAIN imageState : imageState[k] = "avail"}
                ELSE {imageIndex} :
          /\ IF res # "VK_SUCCESS"
             THEN events > 0 /\ events' = events - 1
             ELSE events' = events
          /\ imageIndex' = i
          /\ transients' = IF res = "VK_ERROR_OUT_OF_DATE_KHR"
                           THEN transients + 1 ELSE transients
          /\ imageState' =
                IF res \in {"VK_SUCCESS", "VK_SUBOPTIMAL_KHR"}
                THEN [imageState EXCEPT ![i] = "acquired"]
                ELSE imageState
          /\ imageAvailableSemaphores' =
                IF res \in {"VK_SUCCESS", "VK_SUBOPTIMAL_KHR"}
                THEN [imageAvailableSemaphores EXCEPT ![currentFrame] = "signaled"]
                ELSE imageAvailableSemaphores
          /\ LET call == <<OpR("vkAcquireNextImageKHR", currentFrame, i, res)>>
                 next == AfterAcquire(res)
             IN  \/ /\ next = "recreate"
                    /\ log' = log \o call \o <<Op("recreateSwapchain", 0, 0)>>
                    /\ pc' = "rc_size"
                    /\ retTo' = "acquire"
                 \/ /\ next = "throw"
                    /\ log' = log \o call \o <<Op("throw", 0, 0)>>
                    /\ pc' = "fatal"
                    /\ UNCHANGED retTo
                 \/ /\ next = "continue"
                    /\ log' = log \o call
                    /\ pc' = "update"
                    /\ UNCHANGED retTo
    /\ UNCHANGED <<currentFrame, framebufferResized, width, height, winW, winH,
                   shouldClose, swapVars, inFlightFences, renderFinishedSemaphores,
                   commandBuffers, uniformBuffersMappped, graphicsQueue, presentQueue,
                   everSubmitted>>
    /\ UNCHANGED <<setupVars, callVars>>

\* updateUniformBuffer(currentFrame): memcpy of a UniformBufferObject into
\* uniformBuffersMappped[f]
UpdateUniformBuffer ==
    /\ pc = "update"
    /\ uniformBuffersMappped' =
           [uniformBuffersMappped EXCEPT ![currentFrame] = "ubo"]
    /\ log' = Append(log, Op("updateUniformBuffer", currentFrame, 0))
    /\ pc' = "resetFence"
    /\ UNCHANGED <<retTo, currentFrame, framebufferResized, imageIndex, width, height,
                   windowVars, swapVars, syncVars, commandBuffers, imageState,
                   graphicsQueue, presentQueue, everSubmitted, transients>>
    /\ UNCHANGED <<setupVars, callVars>>

\* vkResetFences(inFlightFences[f])
ResetFences ==
    /\ pc = "resetFence"
    /\ inFlightFences' = [inFlightFences EXCEPT ![currentFrame] = FALSE]
    /\ log' = Append(log, Op("vkResetFences", currentFrame, 0))
    /\ pc' = "resetCmd"
    /\ UNCHANGED <<retTo, currentFrame, framebufferResized, imageIndex, width, height,
                   windowVars, swapVars, imageAvailableSemaphores,
                   renderFinishedSemaphores, gpuVars, everSubmitted, transients>>
    /\ UNCHANGED <<setupVars, callVars>>

\* vkResetCommandBuffer(commandBuffers[f], 0)
ResetCommandBuffer ==
    /\ pc = "resetCmd"
    /\ commandBuffers' = [commandBuffers EXCEPT ![currentFrame] = EmptyCommandBuffer]
    /\ log' = Append(log, Op("vkResetCommandBuffer", currentFrame, 0))
    /\ pc' = "record"
    /\ UNCHANGED <<retTo, currentFrame, framebufferResized, imageIndex, width, height,
                   windowVars, swapVars, syncVars, uniformBuffersMappped, imageState,
                   graphicsQueue, presentQueue, everSubmitted, transients>>
    /\ UNCHANGED <<setupVars, callVars>>

\* one recorded command and the object it names
Cmd(cmd, obj) == [cmd |-> cmd, obj |-> obj]

\* mutant: the draw is recorded before the descriptor set is bound
DrawCommands_DrawBeforeSet(image) ==
    <<Cmd("vkCmdBeginRenderPass", swapChainFramebuffers[image]),
      Cmd("vkCmdBindPipeline", Obj("graphicsPipeline", 0, 0, {})),
      Cmd("vkCmdSetViewport", NoObj),
      Cmd("vkCmdSetScissor", NoObj),
      Cmd("vkCmdBindVertexBuffers", Obj("vertexBuffer", 0, 0, {})),
      Cmd("vkCmdBindIndexBuffer", Obj("indexBuffer", 0, 0, {})),
      Cmd("vkCmdDrawIndexed", NoObj),
      Cmd("vkCmdBindDescriptorSets", descriptorSets[currentFrame]),
      Cmd("vkCmdEndRenderPass", NoObj)>>

\* the commands recordCommandBuffer records between vkBeginCommandBuffer and
\* vkEndCommandBuffer, in order
DrawCommands(image) ==
    <<Cmd("vkCmdBeginRenderPass", swapChainFramebuffers[image]),
      Cmd("vkCmdBindPipeline", Obj("graphicsPipeline", 0, 0, {})),
      Cmd("vkCmdSetViewport", NoObj),
      Cmd("vkCmdSetScissor", NoObj),
      Cmd("vkCmdBindVertexBuffers", Obj("vertexBuffer", 0, 0, {})),
      Cmd("vkCmdBindIndexBuffer", Obj("indexBuffer", 0, 0, {})),
      Cmd("vkCmdBindDescriptorSets", descriptorSets[currentFrame]),
      Cmd("vkCmdDrawIndexed", NoObj),
      Cmd("vkCmdEndRenderPass", NoObj)>>

\* mutant: the draw binds the other slot's descriptor set
RecordedCommands_OtherSet(image) ==
    [state |-> "executable",
     framebuffer |-> swapChainFramebuffers[image],
     descriptorSet |-> descriptorSets[(currentFrame + 1) % MAX_FRAMES_IN_FLIGHT],
     cmds |-> DrawCommands(image)]

\* recordCommandBuffer(commandBuffer, imageIndex): the render pass targets
\* swapChainFramebuffers[imageIndex] and the draw binds descriptorSets[currentFrame]
RecordedCommands(image) ==
    [state |-> "executable",
     framebuffer |-> swapChainFramebuffers[image],
     descriptorSet |-> descriptorSets[currentFrame],
     cmds |-> DrawCommands(image)]

RecordCommandBuffer ==
    /\ pc = "record"
    /\ \/ /\ commandBuffers' =
                 [commandBuffers EXCEPT ![currentFrame] = RecordedCommands(imageIndex)]
          /\ log' = Append(log, Op("recordCommandBuffer", currentFrame, imageIndex))
          /\ pc' = "submit"
          /\ UNCHANGED events
       \/ /\ events > 0
          /\ events' = events - 1
          /\ log' = Append(log, Op("throw", 0, 0))
          /\ pc' = "fatal"
          /\ UNCHANGED commandBuffers
    /\ UNCHANGED <<retTo, currentFrame, framebufferResized, imageIndex, width, height,
                   winW, winH, shouldClose, swapVars, syncVars, uniformBuffersMappped, imageState,
                   graphicsQueue, presentQueue, everSubmitted, transients>>
    /\ UNCHANGED <<setupVars, callVars>>

\* mutant: the batch is submitted with the other slot's fence
SubmitInfo_OtherFence(f) ==
    [commandBuffer |-> f,
     waitSemaphore |-> f,
     waitStage |-> "COLOR_ATTACHMENT_OUTPUT",
     signalSemaphore |-> f,
     fence |-> (f + 1) % MAX_FRAMES_IN_FLIGHT]

\* the VkSubmitInfo drawFrame builds for slot f, and the fence it passes
SubmitInfo(f) ==
    [commandBuffer |-> f,
     waitSemaphore |-> f,
     waitStage |-> "COLOR_ATTACHMENT_OUTPUT",
     signalSemaphore |-> f,
     fence |-> f]

\* vkQueueSubmit(graphicsQueue, submitInfo, inFlightFences[f])
QueueSubmit ==
    /\ pc = "submit"
    /\ \/ /\ graphicsQueue' = Append(graphicsQueue, SubmitInfo(currentFrame))
          /\ everSubmitted' = [everSubmitted EXCEPT ![SubmitInfo(currentFrame).fence] = TRUE]
          /\ log' = Append(log, Op("vkQueueSubmit", SubmitInfo(currentFrame).commandBuffer,
                                   SubmitInfo(currentFrame).fence))
          /\ pc' = "present"
          /\ UNCHANGED events
       \/ /\ events > 0
          /\ events' = events - 1
          /\ log' = Append(log, Op("throw", 0, 0))
          /\ pc' = "fatal"
          /\ UNCHANGED <<graphicsQueue, everSubmitted>>
    /\ UNCHANGED <<retTo, currentFrame, framebufferResized, imageIndex, width, height,
                   winW, winH, shouldClose, swapVars, syncVars, commandBuffers, uniformBuffersMappped,
                   imageState, presentQueue, transients>>
    /\ UNCHANGED <<setupVars, callVars>>

\* mutant: the present waits on the other slot's render-finished semaphore
PresentInfo_OtherSemaphore(f, image) ==
    [waitSemaphore |-> (f + 1) % MAX_FRAMES_IN_FLIGHT, swapchain |-> swapChain,
     image |-> image]

\* the VkPresentInfoKHR drawFrame builds: wait on renderFinishedSemaphores[f],
\* present image imageIndex of swapChain
PresentInfo(f, image) ==
    [waitSemaphore |-> SubmitInfo(f).signalSemaphore, swapchain |-> swapChain,
     image |-> image]

\* mutant: a suboptimal present is taken for a plain success
AfterPresent_SuboptimalIsSuccess(res, resized) ==
    IF res = "VK_ERROR_OUT_OF_DATE_KHR" \/ resized
    THEN "recreate"
    ELSE IF res # "VK_SUCCESS" /\ res # "VK_SUBOPTIMAL_KHR" THEN "throw" ELSE "continue"

\* the branch after vkQueuePresentKHR
AfterPresent(res, resized) ==
    IF res = "VK_ERROR_OUT_OF_DATE_KHR" \/ res = "VK_SUBOPTIMAL_KHR" \/ resized
    THEN "recreate"
    ELSE IF res # "VK_SUCCESS" THEN "throw" ELSE "continue"

\* vkQueuePresentKHR(presentQueue, presentInfo) and the branch on its result.
\* The request is queued unless the call fails with an error other than
\* out-of-date; then it may or may not have been queued.
QueuePresent ==
    /\ pc = "present"
    /\ \E res \in {"VK_SUCCESS", "VK_SUBOPTIMAL_KHR", "VK_ERROR_OUT_OF_DATE_KHR",
                    "VK_ERROR_DEVICE_LOST"} :
       \E queued \in BOOLEAN :
          /\ res # "VK_ERROR_DEVICE_LOST" => queued
          /\ IF res # "VK_SUCCESS"
             THEN events > 0 /\ events' = events - 1
             ELSE events' = events
          /\ transients' = IF res \in {"VK_ERROR_OUT_OF_DATE_KHR", "VK_SUBOPTIMAL_KHR"}
                           THEN transients + 1 ELSE transients
          /\ presentQueue' =
                IF queued THEN Append(presentQueue, PresentInfo(currentFrame, imageIndex))
                ELSE presentQueue
          /\ imageState' =
                IF queued THEN [imageState EXCEPT ![imageIndex] = "queued"]
                ELSE imageState
          /\ LET call == <<OpR("vkQueuePresentKHR", PresentInfo(currentFrame, imageIndex).waitSemaphore,
                               imageIndex, res),
                           Op("framebufferResized", IF framebufferResized THEN 1 ELSE 0, 0)>>
                 next == AfterPresent(res, framebufferResized)
             IN  \/ /\ next = "recreate"
                    /\ framebufferResized' = FALSE
                    /\ log' = log \o call \o <<Op("recreateSwapchain", 0, 0)>>
                    /\ pc' = "rc_size"
                    /\ retTo' = "present"
                 \/ /\ next = "throw"
                    /\ log' = log \o call \o <<Op("throw", 0, 0)>>
                    /\ pc' = "fatal"
                    /\ UNCHANGED <<framebufferResized, retTo>>
                 \/ /\ next = "continue"
                    /\ log' = log \o call
                    /\ pc' = "advance"
                    /\ UNCHANGED <<framebufferResized, retTo>>
    /\ UNCHANGED <<currentFrame, imageIndex, width, height, winW, winH, shouldClose,
                   swapVars, syncVars, commandBuffers, uniformBuffersMappped,
                   graphicsQueue, everSubmitted>>
    /\ UNCHANGED <<setupVars, callVars>>

\* currentFrame = (currentFrame + 1) % MAX_FRAMES_IN_FLIGHT, and drawFrame returns
NextFrame(f) == (f + 1) % MAX_FRAMES_IN_FLIGHT

AdvanceFrame ==
    /\ pc = "advance"
    /\ currentFrame' = NextFrame(currentFrame)
    /\ log' = Append(log, Op("advance", currentFrame', 0))
    /\ pc' = "loop"
    /\ UNCHANGED <<retTo, framebufferResized, imageIndex, width, height, windowVars,
                   swapVars, syncVars, gpuVars, everSubmitted, transients>>
    /\ UNCHANGED <<setupVars, callVars>>

\* ------------------------------------------------------- recreateSwapchain

ZeroSize(w, h) == w = 0 \/ h = 0

\* int width = 0, height = 0; glfwGetFramebufferSize(window, &width, &height);
\* and the first test of while (width == 0 || height == 0)
RecreateGetSize ==
    /\ pc = "rc_size"
    /\ width' = winW
    /\ height' = winH
    /\ pc' = IF ZeroSize(width', height') THEN "rc_get" ELSE "rc_idle"
    /\ UNCHANGED <<retTo, currentFrame, framebufferResized, imageIndex, windowVars,
                   swapVars, syncVars, gpuVars, histVars>>
    /\ UNCHANGED <<setupVars, callVars>>

\* loop body, first statement: glfwGetFramebufferSize(window, &width, &height)
RecreateLoopGetSize ==
    /\ pc = "rc_get"
    /\ width' = winW
    /\ height' = winH
    /\ pc' = "rc_wait"
    /\ UNCHANGED <<retTo, currentFrame, framebufferResized, imageIndex, windowVars,
                   swapVars, syncVars, gpuVars, histVars>>
    /\ UNCHANGED <<setupVars, callVars>>

\* loop body, second statement: glfwWaitEvents() returns after an event was
\* processed; then the loop condition is tested on width and height
RecreateWaitEvents ==
    /\ pc = "rc_wait"
    /\ \/ NoEvent
       \/ CloseEvent
       \/ \E size \in WindowSizes : ResizeEvent(size[1], size[2])
    /\ pc' = IF ZeroSize(width, height) THEN "rc_get" ELSE "rc_idle"
    /\ UNCHANGED <<retTo, currentFrame, imageIndex, width, height, swapVars, syncVars,
                   gpuVars, histVars>>
    /\ UNCHANGED <<setupVars, callVars>>

\* mutant: vkDeviceWaitIdle returns at once
DeviceIdle_NoWait == TRUE

\* vkDeviceWaitIdle(device) returns once no queue operation is outstanding on
\* the graphics queue or on the present queue
DeviceIdle == graphicsQueue = <<>> /\ presentQueue = <<>>

RecreateDeviceWaitIdle ==
    /\ pc = "rc_idle"
    /\ DeviceIdle
    /\ log' = Append(log, Op("vkDeviceWaitIdle", 0, 0))
    /\ pc' = "rc_cleanup"
    /\ UNCHANGED <<retTo, currentFrame, framebufferResized, imageIndex, width, height,
                   windowVars, swapVars, syncVars, gpuVars, everSubmitted, transients>>
    /\ UNCHANGED <<setupVars, callVars>>

\* mutant: cleanupSwapchain destroys the render pass too
CleanupSwapchainDestroys_RenderPassToo ==
    {colorImageView, colorImage, colorImageMemory,
     depthImageView, depthImage, depthImageMemory, renderPass}
    \cup Range(swapChainFramebuffers)
    \cup Range(swapChainImageViews)
    \cup {swapChain} \cup {o \in live : swapChain \in o.from}

\* mutant: cleanupSwapchain leaves the image views alone
CleanupSwapchainDestroys_LeakViews ==
    {colorImageView, colorImage, colorImageMemory,
     depthImageView, depthImage, depthImageMemory}
    \cup Range(swapChainFramebuffers)
    \cup {swapChain} \cup {o \in live : swapChain \in o.from}

\* cleanupSwapchain: the objects it passes to vkDestroy* / vkFreeMemory; the
\* swapchain's images go with the swapchain
CleanupSwapchainDestroys ==
    {colorImageView, colorImage, colorImageMemory,
     depthImageView, depthImage, depthImageMemory}
    \cup Range(swapChainFramebuffers)
    \cup Range(swapChainImageViews)
    \cup {swapChain} \cup {o \in live : swapChain \in o.from}

\* cleanupSwapchain(), called by recreateSwapchain and by cleanup; the members
\* keep the destroyed handles
CleanupSwapchain ==
    /\ pc \in {"rc_cleanup", "cleanup"}
    /\ live' = live \ CleanupSwapchainDestroys
    /\ log' = Append(log, Op("cleanupSwapchain", 0, 0))
    /\ pc' = IF pc = "rc_cleanup" THEN "rc_swapchain" ELSE "cleanup_rest"
    /\ UNCHANGED <<retTo, currentFrame, framebufferResized, imageIndex, width, height,
                   windowVars, swapChain, swapChainImages, swapChainImageViews,
                   swapChainFramebuffers, swapChainExtent, colorImage, colorImageMemory,
                   colorImageView, depthImage, depthImageMemory, depthImageView,
                   created, syncVars, gpuVars, everSubmitted, transients>>
    /\ UNCHANGED <<setupVars, callVars>>

\* createSwapChain(): surface query, chooseSwapExtent, vkCreateSwapchainKHR
\* (throws on failure), vkGetSwapchainImagesKHR
CreateSwapChain ==
    /\ pc = "rc_swapchain"
    /\ \/ \E n \in ImageCounts, capabilities \in SurfaceCapabilities(winW, winH) :
          LET sc == NewSwapChain(created + 1)
          IN  /\ created' = created + 1
              /\ swapChain' = sc
              /\ swapChainImages' = NewSwapChainImages(sc, n)
              /\ swapChainExtent' = chooseSwapExtent(capabilities, winW, winH)
              /\ imageState' = [i \in DOMAIN swapChainImages' |-> "avail"]
              /\ live' = live \cup {sc} \cup Range(swapChainImages')
              /\ log' = Append(log, Op("createSwapChain", 0, 0))
              /\ pc' = "rc_views"
              /\ UNCHANGED events
       \/ /\ events > 0
          /\ events' = events - 1
          /\ log' = Append(log, Op("throw", 0, 0))
          /\ pc' = "fatal"
          /\ UNCHANGED <<created, swapChain, swapChainImages, swapChainExtent,
                         imageState, live>>
    /\ UNCHANGED <<retTo, currentFrame, framebufferResized, imageIndex, width, height,
                   winW, winH, shouldClose, swapChainImageViews, swapChainFramebuffers, colorImage,
                   colorImageMemory, colorImageView, depthImage, depthImageMemory,
                   depthImageView, syncVars, commandBuffers, uniformBuffersMappped,
                   graphicsQueue, presentQueue, everSubmitted, transients>>
    /\ UNCHANGED <<setupVars, callVars>>

\* createImageViews()
CreateImageViews ==
    /\ pc = "rc_views"
    /\ swapChainImageViews' = NewImageViews(swapChainImages)
    /\ live' = live \cup Range(swapChainImageViews')
    /\ log' = Append(log, Op("createImageViews", 0, 0))
    /\ pc' = "rc_color"
    /\ UNCHANGED <<retTo, currentFrame, framebufferResized, imageIndex, width, height,
                   windowVars, swapChain, swapChainImages, swapChainFramebuffers,
                   swapChainExtent, colorImage, colorImageMemory, colorImageView,
                   depthImage, depthImageMemory, depthImageView, created, syncVars,
                   gpuVars, everSubmitted, transients>>
    /\ UNCHANGED <<setupVars, callVars>>

\* createColorResources()
CreateColorResources ==
    /\ pc = "rc_color"
    /\ LET color == NewAttachment("color", created)
       IN  /\ colorImage' = color.image
           /\ colorImageMemory' = color.memory
           /\ colorImageView' = color.view
           /\ live' = live \cup {color.image, color.memory, color.view}
    /\ log' = Append(log, Op("createColorResources", 0, 0))
    /\ pc' = "rc_depth"
    /\ UNCHANGED <<retTo, currentFrame, framebufferResized, imageIndex, width, height,
                   windowVars, swapChain, swapChainImages, swapChainImageViews,
                   swapChainFramebuffers, swapChainExtent, depthImage, depthImageMemory,
                   depthImageView, created, syncVars, gpuVars, everSubmitted, transients>>
    /\ UNCHANGED <<setupVars, callVars>>

\* createDepthResources()
CreateDepthResources ==
    /\ pc = "rc_depth"
    /\ LET depth == NewAttachment("depth", created)
       IN  /\ depthImage' = depth.image
           /\ depthImageMemory' = depth.memory
           /\ depthImageView' = depth.view
           /\ live' = live \cup {depth.image, depth.memory, depth.view}
    /\ log' = Append(log, Op("createDepthResources", 0, 0))
    /\ pc' = "rc_fb"
    /\ UNCHANGED <<retTo, currentFrame, framebufferResized, imageIndex, width, height,
                   windowVars, swapChain, swapChainImages, swapChainImageViews,
                   swapChainFramebuffers, swapChainExtent, colorImage, colorImageMemory,
                   colorImageView, created, syncVars, gpuVars, everSubmitted, transients>>
    /\ UNCHANGED <<setupVars, callVars>>

\* createFramebuffers(), after which recreateSwapchain returns: to drawFrame's
\* return on the acquire path, to the currentFrame update on the present path
CreateFramebuffers ==
    /\ pc = "rc_fb"
    /\ swapChainFramebuffers' =
           NewFramebuffers(swapChainImageViews, colorImageView, depthImageView, created)
    /\ live' = live \cup Range(swapChainFramebuffers')
    /\ log' = Append(log, Op("createFramebuffers", 0, 0))
    /\ pc' = IF retTo = "acquire" THEN "loop" ELSE "advance"
    /\ retTo' = "none"
    /\ width' = 0
    /\ height' = 0
    /\ UNCHANGED <<currentFrame, framebufferResized, imageIndex, windowVars, swapChain, swapChainImages, swapChainImageViews,
                   swapChainExtent, colorImage, colorImageMemory, colorImageView,
                   depthImage, depthImageMemory, depthImageView, created, syncVars,
                   gpuVars, everSubmitted, transients>>
    /\ UNCHANGED <<setupVars, callVars>>

\* ---------------------------------------------------------------- shutdown

\* mainLoop's vkDeviceWaitIdle(device) after the loop
MainDeviceWaitIdle ==
    /\ pc = "idle"
    /\ DeviceIdle
    /\ log' = Append(log, Op("vkDeviceWaitIdle", 0, 0))
    /\ pc' = "cleanup"
    /\ UNCHANGED <<retTo, currentFrame, framebufferResized, imageIndex, width, height,
                   windowVars, swapVars, syncVars, gpuVars, everSubmitted, transients>>
    /\ UNCHANGED <<setupVars, callVars>>

\* one object of the kinds that exist once
Single(kind) == Obj(kind, 0, 0, {})

\* mutant: cleanup() destroys the device before the other objects
CleanupOrder_DeviceFirst ==
    <<{Single("device")}, PersistentObjects \ {Single("device")}>>

\* cleanup() after cleanupSwapchain(): the vkDestroy* / vkFreeMemory calls in
\* the order of the code; descriptor sets go with their pool and command
\* buffers with theirs
CleanupOrder ==
    <<{textureSampler}, {textureImageView}, {Single("textureImage")},
      {Single("textureImageMemory")}>>
    \o [k \in 1 .. (2 * MAX_FRAMES_IN_FLIGHT) |->
          IF k % 2 = 1
          THEN {uniformBuffers[(k - 1) \div 2]}
          ELSE {uniformBuffersMemory[(k - 1) \div 2]}]
    \o <<{Single("descriptorPool")} \cup Range(descriptorSets),
          {Single("descriptorSetLayout")},
          {Single("vertexBuffer")}, {Single("vertexBufferMemory")},
          {Single("indexBuffer")}, {Single("indexBufferMemory")},
          {Single("graphicsPipeline")}, {Single("pipelineLayout")}, {renderPass}>>
    \o [k \in 1 .. (3 * MAX_FRAMES_IN_FLIGHT) |->
          {Obj(<<"imageAvailableSemaphore", "renderFinishedSemaphore",
                 "inFlightFence">>[((k - 1) % 3) + 1], 0, (k - 1) \div 3, {})}]
    \o <<{Single("commandPool")}
            \cup {Obj("commandBuffer", 0, f, {}) : f \in Slots},
          {Single("device")}>>

\* cleanup() after cleanupSwapchain(): the next destroy call of CleanupOrder;
\* cleanup returns after the last one
CleanupRest ==
    /\ pc = "cleanup_rest"
    /\ \E k \in DOMAIN CleanupOrder :
          /\ CleanupOrder[k] \cap live # {}
          /\ \A j \in 1 .. (k - 1) : CleanupOrder[j] \cap live = {}
          /\ live' = live \ CleanupOrder[k]
    /\ IF live' \cap PersistentObjects = {}
       THEN pc' = "done" /\ log' = Append(log, Op("cleanup", 0, 0))
       ELSE pc' = pc /\ log' = log
    /\ UNCHANGED <<retTo, currentFrame, framebufferResized, imageIndex, width, height,
                   windowVars, swapChain, swapChainImages, swapChainImageViews,
                   swapChainFramebuffers, swapChainExtent, colorImage, colorImageMemory,
                   colorImageView, depthImage, depthImageMemory, depthImageView,
                   created, syncVars, gpuVars, everSubmitted, transients>>
    /\ UNCHANGED <<setupVars, callVars>>

\* ------------------------------------------- GPU and presentation engine

\* the process is alive: no exception has ended it and cleanup has not run
Running == pc \notin {"fatal", "done"}

\* the graphics queue completes its oldest batch: the image has been handed
\* over and the wait semaphore is consumed, then the signal semaphore and the fence are signaled
GpuComplete ==
    /\ Running
    /\ graphicsQueue # <<>>
    /\ LET batch == Head(graphicsQueue)
       IN  /\ imageAvailableSemaphores[batch.waitSemaphore] = "signaled"
           /\ imageAvailableSemaphores' =
                  [imageAvailableSemaphores EXCEPT ![batch.waitSemaphore] = "unsignaled"]
           /\ renderFinishedSemaphores' =
                  [renderFinishedSemaphores EXCEPT ![batch.signalSemaphore] = "signaled"]
           /\ inFlightFences' = [inFlightFences EXCEPT ![batch.fence] = TRUE]
    /\ graphicsQueue' = Tail(graphicsQueue)
    /\ UNCHANGED <<hostVars, windowVars, swapVars, commandBuffers, uniformBuffersMappped,
                   imageState, presentQueue, histVars>>
    /\ UNCHANGED <<setupVars, callVars>>

\* the presentation engine executes its oldest request: the wait semaphore is
\* consumed and the image goes back to the swapchain it belongs to
PresentExec ==
    /\ Running
    /\ presentQueue # <<>>
    /\ LET request == Head(presentQueue)
       IN  /\ renderFinishedSemaphores[request.waitSemaphore] = "signaled"
           /\ renderFinishedSemaphores' =
                  [renderFinishedSemaphores EXCEPT ![request.waitSemaphore] = "unsignaled"]
           /\ imageState' =
                  IF request.swapchain = swapChain /\ swapChain \in live
                  THEN [imageState EXCEPT ![request.image] = "avail"]
                  ELSE imageState
    /\ presentQueue' = Tail(presentQueue)
    /\ UNCHANGED <<hostVars, windowVars, swapVars, inFlightFences,
                   imageAvailableSemaphores, commandBuffers, uniformBuffersMappped,
                   graphicsQueue, histVars>>
    /\ UNCHANGED <<setupVars, callVars>>

\* ----------------------------------------------------------- specification

Next ==
    \/ MainLoopTest
    \/ PollEvents
    \/ WaitForFences
    \/ AcquireNextImage
    \/ UpdateUniformBuffer
    \/ ResetFences
    \/ ResetCommandBuffer
    \/ RecordCommandBuffer
    \/ QueueSubmit
    \/ QueuePresent
    \/ AdvanceFrame
    \/ RecreateGetSize
    \/ RecreateLoopGetSize
    \/ RecreateWaitEvents
    \/ RecreateDeviceWaitIdle
    \/ CleanupSwapchain
    \/ CreateSwapChain
    \/ CreateImageViews
    \/ CreateColorResources
    \/ CreateDepthResources
    \/ CreateFramebuffers
    \/ MainDeviceWaitIdle
    \/ CleanupRest
    \/ GpuComplete
    \/ PresentExec

Spec == Init /\ [][Next]_vars

\* the frame loop with a device that completes every batch it was given and
\* a vkWaitForFences that returns once its fence is signaled
FenceLiveSpec ==
    /\ Init
    /\ [][Next]_vars
    /\ WF_vars(WaitForFences)
    /\ WF_vars(GpuComplete)

\* the steps of the host thread: every statement of run() returns, except
\* the calls that block (vkWaitForFences, vkDeviceWaitIdle), which return
\* once what they wait for has happened
HostNext ==
    \/ MainLoopTest
    \/ PollEvents
    \/ WaitForFences
    \/ AcquireNextImage
    \/ UpdateUniformBuffer
    \/ ResetFences
    \/ ResetCommandBuffer
    \/ RecordCommandBuffer
    \/ QueueSubmit
    \/ QueuePresent
    \/ AdvanceFrame
    \/ RecreateGetSize
    \/ RecreateLoopGetSize
    \/ RecreateWaitEvents
    \/ RecreateDeviceWaitIdle
    \/ CleanupSwapchain
    \/ CreateSwapChain
    \/ CreateImageViews
    \/ CreateColorResources
    \/ CreateDepthResources
    \/ CreateFramebuffers
    \/ MainDeviceWaitIdle
    \/ CleanupRest

\* the frame loop with a host thread that keeps running and a device that
\* completes every batch and every present request it was given
LiveSpec ==
    /\ Init
    /\ [][Next]_vars
    /\ WF_vars(HostNext)
    /\ WF_vars(GpuComplete)
    /\ WF_vars(PresentExec)

\* ------------------------------------------- initVulkan: texture setup

TexSizes == 1 .. MaxTexSize

\* the three ways the texture setup is entered: transitionImageLayout with
\* any pair of layouts, generateMipmaps on an image whose levels are all
\* TRANSFER_DST_OPTIMAL, and createTextureImage as initVulkan calls it
TransitionCall ==
    /\ spc = "begin"
    /\ oper = "transition"
    /\ sret = "s_done"
    /\ oldLayout \in Layouts
    /\ newLayout \in Layouts
    /\ mipLevels \in 1 .. MaxMipLevels
    /\ texWidth = 1
    /\ texHeight = 1
    /\ formatLinear = TRUE
    /\ layouts = [l \in 0 .. (mipLevels - 1) |-> oldLayout]
    /\ stagingBuffer = "none"

MipmapCall ==
    /\ spc = "m_check"
    /\ oper = "mipmaps"
    /\ sret = "s_done"
    /\ oldLayout = "UNDEFINED"
    /\ newLayout = "UNDEFINED"
    /\ mipLevels \in 1 .. MaxMipLevels
    /\ texWidth \in TexSizes
    /\ texHeight \in TexSizes
    /\ formatLinear \in BOOLEAN
    /\ layouts = [l \in 0 .. (mipLevels - 1) |-> "TRANSFER_DST_OPTIMAL"]
    /\ stagingBuffer = "none"

TextureCall ==
    /\ spc = "tex_load"
    /\ oper = "texture"
    /\ sret = "none"
    /\ oldLayout = "UNDEFINED"
    /\ newLayout = "UNDEFINED"
    /\ mipLevels = 0
    /\ texWidth \in TexSizes
    /\ texHeight \in TexSizes
    /\ formatLinear \in BOOLEAN
    /\ layouts = <<>>
    /\ stagingBuffer = "none"

\* initVulkan has built the swapchain, the attachments and the framebuffers
\* and is about to set the texture up
SetupInit ==
    /\ FrameInit("init", PersistentObjects \ CreatedAfterTexture)
    /\ details = NoCapabilities
    /\ args = NoCall
    /\ ret = NoReturn
    /\ \/ TransitionCall
       \/ MipmapCall
       \/ TextureCall
    /\ mipWidth = 0
    /\ mipHeight = 0
    /\ mipIndex = 0
    /\ singleTime = NoSingleTime
    /\ layoutHazard = FALSE
    /\ descriptorsWritten = FALSE
    /\ setupLog = <<>>

\* VkImageMemoryBarrier with the stages vkCmdPipelineBarrier is given
Barrier(base, count, old, new, aspect, srcAccess, dstAccess, srcStage, dstStage) ==
    [cmd |-> "barrier", baseMipLevel |-> base, levelCount |-> count,
     oldLayout |-> old, newLayout |-> new, aspectMask |-> aspect,
     srcAccessMask |-> srcAccess, dstAccessMask |-> dstAccess,
     srcStage |-> srcStage, dstStage |-> dstStage]

\* levels a barrier covers
BarrierLevels(b) == b.baseMipLevel .. (b.baseMipLevel + b.levelCount - 1)

\* the command finds every level it touches in the layout it names
\* (UNDEFINED as old layout fits any layout: the contents are discarded)
LayoutsFit(c, lay) ==
    IF c.cmd = "barrier"
    THEN \A l \in BarrierLevels(c) :
            l \in DOMAIN lay /\ (c.oldLayout = "UNDEFINED" \/ lay[l] = c.oldLayout)
    ELSE IF c.cmd = "blit"
    THEN /\ c.srcLevel \in DOMAIN lay /\ lay[c.srcLevel] = c.srcLayout
         /\ c.dstLevel \in DOMAIN lay /\ lay[c.dstLevel] = c.dstLayout
    ELSE IF c.cmd = "copyBuffer"
    THEN TRUE
    ELSE c.level \in DOMAIN lay /\ lay[c.level] = c.layout

\* layouts after the GPU has executed one command
AfterCommand(c, lay) ==
    IF c.cmd = "barrier"
    THEN [l \in DOMAIN lay |-> IF l \in BarrierLevels(c) THEN c.newLayout ELSE lay[l]]
    ELSE lay

\* layouts after the GPU has executed a command list in order, and whether
\* every command found its layouts
RECURSIVE Execute(_, _, _)
Execute(cmds, lay, fit) ==
    IF cmds = <<>>
    THEN [layouts |-> lay, fit |-> fit]
    ELSE Execute(Tail(cmds), AfterCommand(Head(cmds), lay),
                 fit /\ LayoutsFit(Head(cmds), lay))

\* stbi_load and the mipLevels computation of createTextureImage; a texture
\* that cannot be loaded is fatal
LoadTexture ==
    /\ spc = "tex_load"
    /\ \/ /\ mipLevels' = MipLevelsOf(texWidth, texHeight)
          /\ spc' = "tex_staging"
       \/ /\ spc' = "s_fatal"
          /\ UNCHANGED mipLevels
    /\ UNCHANGED <<callVars, frameVars, oper, sret, oldLayout, newLayout, texWidth, texHeight,
                   mipWidth, mipHeight, mipIndex, formatLinear, singleTime, layouts,
                   layoutHazard, stagingBuffer, descriptorsWritten, setupLog>>

\* createBuffer of the staging buffer and the memcpy of the pixels into it
CreateStagingBuffer ==
    /\ spc = "tex_staging"
    /\ stagingBuffer' = "live"
    /\ spc' = "tex_image"
    /\ UNCHANGED <<callVars, frameVars, oper, sret, oldLayout, newLayout, texWidth, texHeight,
                   mipLevels, mipWidth, mipHeight, mipIndex, formatLinear, singleTime,
                   layouts, layoutHazard, descriptorsWritten, setupLog>>

\* createImage with mipLevels levels, all created UNDEFINED, and the call
\* transitionImageLayout(textureImage, UNDEFINED, TRANSFER_DST_OPTIMAL, mipLevels)
CreateTextureImage ==
    /\ spc = "tex_image"
    /\ layouts' = [l \in 0 .. (mipLevels - 1) |-> "UNDEFINED"]
    /\ oldLayout' = "UNDEFINED"
    /\ newLayout' = "TRANSFER_DST_OPTIMAL"
    /\ oper' = "transition"
    /\ sret' = "tex_copy"
    /\ spc' = "begin"
    /\ UNCHANGED <<callVars, frameVars, texWidth, texHeight, mipLevels, mipWidth, mipHeight,
                   mipIndex, formatLinear, singleTime, layoutHazard, stagingBuffer,
                   descriptorsWritten, setupLog>>

\* beginSingleTimeCommands: vkAllocateCommandBuffers and vkBeginCommandBuffer;
\* the caller goes on with its first command
BeginSingleTimeCommands ==
    /\ spc = "begin"
    /\ singleTime' = [state |-> "recording", cmds |-> <<>>]
    /\ spc' = IF oper = "transition" THEN "t_barrier"
              ELSE IF oper = "copy" THEN "c_copy"
              ELSE IF oper = "copyBuffer" THEN "b_copy" ELSE "m_init"
    /\ UNCHANGED <<callVars, frameVars, oper, sret, oldLayout, newLayout, texWidth, texHeight,
                   mipLevels, mipWidth, mipHeight, mipIndex, formatLinear, layouts,
                   layoutHazard, stagingBuffer, descriptorsWritten, setupLog>>

\* mutant: the shader-read transition makes the write visible to the vertex stage
TransitionInfo_WrongStage(old, new) ==
    IF old = "UNDEFINED" /\ new = "TRANSFER_DST_OPTIMAL"
    THEN [supported |-> TRUE, srcAccessMask |-> {}, dstAccessMask |-> {"TRANSFER_WRITE"},
          sourceStage |-> "TOP_OF_PIPE", destinationStage |-> "TRANSFER"]
    ELSE IF old = "TRANSFER_DST_OPTIMAL" /\ new = "SHADER_READ_ONLY_OPTIMAL"
    THEN [supported |-> TRUE, srcAccessMask |-> {"TRANSFER_WRITE"},
          dstAccessMask |-> {"SHADER_READ"},
          sourceStage |-> "TRANSFER", destinationStage |-> "VERTEX_SHADER"]
    ELSE IF old = "UNDEFINED" /\ new = "DEPTH_STENCIL_ATTACHMENT_OPTIMAL"
    THEN [supported |-> TRUE, srcAccessMask |-> {},
          dstAccessMask |-> {"DEPTH_STENCIL_ATTACHMENT_READ",
                             "DEPTH_STENCIL_ATTACHMENT_WRITE"},
          sourceStage |-> "TOP_OF_PIPE", destinationStage |-> "EARLY_FRAGMENT_TESTS"]
    ELSE [supported |-> FALSE, srcAccessMask |-> {}, dstAccessMask |-> {},
          sourceStage |-> "", destinationStage |-> ""]

\* mutant: a pair that is not listed gets an empty barrier instead of the throw
TransitionInfo_NoThrow(old, new) ==
    IF old = "UNDEFINED" /\ new = "TRANSFER_DST_OPTIMAL"
    THEN [supported |-> TRUE, srcAccessMask |-> {}, dstAccessMask |-> {"TRANSFER_WRITE"},
          sourceStage |-> "TOP_OF_PIPE", destinationStage |-> "TRANSFER"]
    ELSE IF old = "TRANSFER_DST_OPTIMAL" /\ new = "SHADER_READ_ONLY_OPTIMAL"
    THEN [supported |-> TRUE, srcAccessMask |-> {"TRANSFER_WRITE"},
          dstAccessMask |-> {"SHADER_READ"},
          sourceStage |-> "TRANSFER", destinationStage |-> "FRAGMENT_SHADER"]
    ELSE IF old = "UNDEFINED" /\ new = "DEPTH_STENCIL_ATTACHMENT_OPTIMAL"
    THEN [supported |-> TRUE, srcAccessMask |-> {},
          dstAccessMask |-> {"DEPTH_STENCIL_ATTACHMENT_READ",
                             "DEPTH_STENCIL_ATTACHMENT_WRITE"},
          sourceStage |-> "TOP_OF_PIPE", destinationStage |-> "EARLY_FRAGMENT_TESTS"]
    ELSE [supported |-> TRUE, srcAccessMask |-> {}, dstAccessMask |-> {},
          sourceStage |-> "TOP_OF_PIPE", destinationStage |-> "BOTTOM_OF_PIPE"]

\* the if / else-if chain of transitionImageLayout: access masks and stages
\* of the three pairs it knows, and the throw for every other pair
TransitionInfo(old, new) ==
    IF old = "UNDEFINED" /\ new = "TRANSFER_DST_OPTIMAL"
    THEN [supported |-> TRUE, srcAccessMask |-> {}, dstAccessMask |-> {"TRANSFER_WRITE"},
          sourceStage |-> "TOP_OF_PIPE", destinationStage |-> "TRANSFER"]
    ELSE IF old = "TRANSFER_DST_OPTIMAL" /\ new = "SHADER_READ_ONLY_OPTIMAL"
    THEN [supported |-> TRUE, srcAccessMask |-> {"TRANSFER_WRITE"},
          dstAccessMask |-> {"SHADER_READ"},
          sourceStage |-> "TRANSFER", destinationStage |-> "FRAGMENT_SHADER"]
    ELSE IF old = "UNDEFINED" /\ new = "DEPTH_STENCIL_ATTACHMENT_OPTIMAL"
    THEN [supported |-> TRUE, srcAccessMask |-> {},
          dstAccessMask |-> {"DEPTH_STENCIL_ATTACHMENT_READ",
                             "DEPTH_STENCIL_ATTACHMENT_WRITE"},
          sourceStage |-> "TOP_OF_PIPE", destinationStage |-> "EARLY_FRAGMENT_TESTS"]
    ELSE [supported |-> FALSE, srcAccessMask |-> {}, dstAccessMask |-> {},
          sourceStage |-> "", destinationStage |-> ""]

\* barrier.subresourceRange.aspectMask of transitionImageLayout
TransitionAspect(new, stencil) ==
    IF new = "DEPTH_STENCIL_ATTACHMENT_OPTIMAL"
    THEN IF stencil THEN {"DEPTH", "STENCIL"} ELSE {"DEPTH"}
    ELSE {"COLOR"}

\* the body of transitionImageLayout between beginSingleTimeCommands and
\* endSingleTimeCommands: one barrier over all mipLevels levels, or the throw,
\* which leaves the function at once
TransitionBarrier ==
    /\ spc = "t_barrier"
    /\ LET info == TransitionInfo(oldLayout, newLayout)
       IN  IF info.supported
           THEN \E stencil \in BOOLEAN :
                  /\ singleTime' =
                        [singleTime EXCEPT !.cmds =
                            Append(@, Barrier(0, mipLevels, oldLayout, newLayout,
                                              TransitionAspect(newLayout, stencil),
                                              info.srcAccessMask, info.dstAccessMask,
                                              info.sourceStage, info.destinationStage))]
                  /\ spc' = "end"
           ELSE /\ spc' = "s_fatal"
                /\ UNCHANGED singleTime
    /\ UNCHANGED <<callVars, frameVars, oper, sret, oldLayout, newLayout, texWidth, texHeight,
                   mipLevels, mipWidth, mipHeight, mipIndex, formatLinear, layouts,
                   layoutHazard, stagingBuffer, descriptorsWritten, setupLog>>

\* createTextureImage goes on to copyBufferToImage(stagingBuffer, textureImage)
\* mutant: the staging buffer is destroyed before the copy is submitted
CallCopyBufferToImage_DestroysFirst ==
    /\ spc = "tex_copy"
    /\ stagingBuffer' = "destroyed"
    /\ oper' = "copy"
    /\ sret' = "tex_unstage"
    /\ spc' = "begin"
    /\ UNCHANGED <<callVars, frameVars, oldLayout, newLayout, texWidth, texHeight, mipLevels,
                   mipWidth, mipHeight, mipIndex, formatLinear, singleTime, layouts,
                   layoutHazard, descriptorsWritten, setupLog>>

CallCopyBufferToImage ==
    /\ spc = "tex_copy"
    /\ oper' = "copy"
    /\ sret' = "tex_unstage"
    /\ spc' = "begin"
    /\ UNCHANGED <<callVars, frameVars, oldLayout, newLayout, texWidth, texHeight, mipLevels,
                   mipWidth, mipHeight, mipIndex, formatLinear, singleTime, layouts,
                   layoutHazard, stagingBuffer, descriptorsWritten, setupLog>>

\* vkCmdCopyBufferToImage into level 0, named as TRANSFER_DST_OPTIMAL
CopyBufferToImage ==
    /\ spc = "c_copy"
    /\ singleTime' =
          [singleTime EXCEPT !.cmds =
              Append(@, [cmd |-> "copy", level |-> 0, layout |-> "TRANSFER_DST_OPTIMAL",
                         extent |-> <<texWidth, texHeight>>])]
    /\ spc' = "end"
    /\ UNCHANGED <<callVars, frameVars, oper, sret, oldLayout, newLayout, texWidth, texHeight,
                   mipLevels, mipWidth, mipHeight, mipIndex, formatLinear, layouts,
                   layoutHazard, stagingBuffer, descriptorsWritten, setupLog>>

\* endSingleTimeCommands, first call: vkEndCommandBuffer
EndCommandBuffer ==
    /\ spc = "end"
    /\ singleTime' = [singleTime EXCEPT !.state = "executable"]
    /\ spc' = "submit"
    /\ UNCHANGED <<callVars, frameVars, oper, sret, oldLayout, newLayout, texWidth, texHeight,
                   mipLevels, mipWidth, mipHeight, mipIndex, formatLinear, layouts,
                   layoutHazard, stagingBuffer, descriptorsWritten, setupLog>>

\* endSingleTimeCommands, second call: vkQueueSubmit without a fence
SubmitSingleTime ==
    /\ spc = "submit"
    /\ singleTime' = [singleTime EXCEPT !.state = "pending"]
    /\ setupLog' = Append(setupLog, singleTime.cmds)
    /\ spc' = "waitIdle"
    /\ UNCHANGED <<callVars, frameVars, oper, sret, oldLayout, newLayout, texWidth, texHeight,
                   mipLevels, mipWidth, mipHeight, mipIndex, formatLinear, layouts,
                   layoutHazard, stagingBuffer, descriptorsWritten>>

\* endSingleTimeCommands, third call: vkQueueWaitIdle returns when the GPU
\* has executed the commands in order
QueueWaitIdle ==
    /\ spc = "waitIdle"
    /\ LET done == Execute(singleTime.cmds, layouts, TRUE)
       IN  /\ layouts' = done.layouts
           /\ layoutHazard' = (layoutHazard \/ ~done.fit)
    /\ singleTime' = [singleTime EXCEPT !.state = "executable"]
    /\ spc' = "free"
    /\ UNCHANGED <<callVars, frameVars, oper, sret, oldLayout, newLayout, texWidth, texHeight,
                   mipLevels, mipWidth, mipHeight, mipIndex, formatLinear,
                   stagingBuffer, descriptorsWritten, setupLog>>

\* endSingleTimeCommands, last call: vkFreeCommandBuffers; then the function
\* that owned the command buffer returns and its locals are gone
FreeCommandBuffers ==
    /\ spc = "free"
    /\ singleTime' = NoSingleTime
    /\ spc' = sret
    /\ oper' = IF sret = "s_done" THEN oper
              ELSE IF sret = "vb_unstage" THEN "vertexBuffer"
              ELSE IF sret = "ib_unstage" THEN "indexBuffer" ELSE "texture"
    /\ sret' = IF sret = "s_done" THEN sret ELSE "none"
    /\ oldLayout' = "UNDEFINED"
    /\ newLayout' = "UNDEFINED"
    /\ mipWidth' = 0
    /\ mipHeight' = 0
    /\ mipIndex' = 0
    /\ UNCHANGED <<callVars, frameVars, texWidth, texHeight, mipLevels, formatLinear, layouts,
                   layoutHazard, stagingBuffer, descriptorsWritten, setupLog>>

\* createTextureImage destroys the staging buffer and frees its memory, then
\* calls generateMipmaps(textureImage, format, texWidth, texHeight, mipLevels)
DestroyStagingBuffer ==
    /\ spc = "tex_unstage"
    /\ stagingBuffer' = "destroyed"
    /\ oper' = "mipmaps"
    /\ sret' = "tex_view"
    /\ spc' = "m_check"
    /\ UNCHANGED <<callVars, frameVars, oldLayout, newLayout, texWidth, texHeight, mipLevels,
                   mipWidth, mipHeight, mipIndex, formatLinear, singleTime, layouts,
                   layoutHazard, descriptorsWritten, setupLog>>

\* generateMipmaps: the format must support linear-filter blits, else throw
\* mutant: the command buffer is begun before the format is checked
MipmapFormatCheck_AfterBegin ==
    /\ spc = "m_check"
    /\ singleTime' = [state |-> "recording", cmds |-> <<>>]
    /\ spc' = IF formatLinear THEN "m_init" ELSE "s_fatal"
    /\ UNCHANGED <<callVars, frameVars, oper, sret, oldLayout, newLayout, texWidth, texHeight,
                   mipLevels, mipWidth, mipHeight, mipIndex, formatLinear,
                   layouts, layoutHazard, stagingBuffer, descriptorsWritten, setupLog>>

MipmapFormatCheck ==
    /\ spc = "m_check"
    /\ spc' = IF formatLinear THEN "begin" ELSE "s_fatal"
    /\ UNCHANGED <<callVars, frameVars, oper, sret, oldLayout, newLayout, texWidth, texHeight,
                   mipLevels, mipWidth, mipHeight, mipIndex, formatLinear, singleTime,
                   layouts, layoutHazard, stagingBuffer, descriptorsWritten, setupLog>>

\* int32_t mipWidth = texWidth, mipHeight = texHeight; uint32_t i = 1
MipmapInit ==
    /\ spc = "m_init"
    /\ mipWidth' = texWidth
    /\ mipHeight' = texHeight
    /\ mipIndex' = 1
    /\ spc' = "m_loop"
    /\ UNCHANGED <<callVars, frameVars, oper, sret, oldLayout, newLayout, texWidth, texHeight,
                   mipLevels, formatLinear, singleTime, layouts, layoutHazard,
                   stagingBuffer, descriptorsWritten, setupLog>>

\* for (...; i < mipLevels; ...)
MipmapLoopTest ==
    /\ spc = "m_loop"
    /\ spc' = IF mipIndex < mipLevels THEN "m_toSrc" ELSE "m_last"
    /\ UNCHANGED <<callVars, frameVars, oper, sret, oldLayout, newLayout, texWidth, texHeight,
                   mipLevels, mipWidth, mipHeight, mipIndex, formatLinear, singleTime,
                   layouts, layoutHazard, stagingBuffer, descriptorsWritten, setupLog>>

\* first barrier of the loop body: level i - 1 from TRANSFER_DST_OPTIMAL to
\* TRANSFER_SRC_OPTIMAL
ToSrcBarrier(k) ==
    Barrier(k - 1, 1, "TRANSFER_DST_OPTIMAL", "TRANSFER_SRC_OPTIMAL", {"COLOR"},
            {"TRANSFER_WRITE"}, {"TRANSFER_READ"}, "TRANSFER", "TRANSFER")

\* mutant: the second barrier still names TRANSFER_DST_OPTIMAL as old layout
ToReadBarrier_FromDst(k) ==
    Barrier(k - 1, 1, "TRANSFER_DST_OPTIMAL", "SHADER_READ_ONLY_OPTIMAL", {"COLOR"},
            {"TRANSFER_READ"}, {"SHADER_READ"}, "TRANSFER", "FRAGMENT_SHADER")

\* second barrier of the loop body: level i - 1 from TRANSFER_SRC_OPTIMAL to
\* SHADER_READ_ONLY_OPTIMAL
ToReadBarrier(k) ==
    Barrier(k - 1, 1, "TRANSFER_SRC_OPTIMAL", "SHADER_READ_ONLY_OPTIMAL", {"COLOR"},
            {"TRANSFER_READ"}, {"SHADER_READ"}, "TRANSFER", "FRAGMENT_SHADER")

\* mutant: the barrier after the loop leaves the last level where it is
LastBarrier_StaysDst(n) ==
    Barrier(n - 1, 1, "TRANSFER_DST_OPTIMAL", "TRANSFER_DST_OPTIMAL", {"COLOR"},
            {"TRANSFER_WRITE"}, {"SHADER_READ"}, "TRANSFER", "FRAGMENT_SHADER")

\* the barrier after the loop: level mipLevels - 1 from TRANSFER_DST_OPTIMAL
\* to SHADER_READ_ONLY_OPTIMAL
LastBarrier(n) ==
    Barrier(n - 1, 1, "TRANSFER_DST_OPTIMAL", "SHADER_READ_ONLY_OPTIMAL", {"COLOR"},
            {"TRANSFER_WRITE"}, {"SHADER_READ"}, "TRANSFER", "FRAGMENT_SHADER")

\* mipWidth > 1 ? mipWidth / 2 : 1
\* mutant: plain halving
HalfOrOne_Half(v) == v \div 2

\* mipWidth > 1 ? mipWidth / 2 : 1
HalfOrOne(v) == IF v > 1 THEN v \div 2 ELSE 1

\* VkImageBlit of the loop body and the layouts vkCmdBlitImage is given
Blit(k, w, h) ==
    [cmd |-> "blit", srcLevel |-> k - 1, dstLevel |-> k,
     srcLayout |-> "TRANSFER_SRC_OPTIMAL", dstLayout |-> "TRANSFER_DST_OPTIMAL",
     srcExtent |-> <<w, h>>, dstExtent |-> <<HalfOrOne(w), HalfOrOne(h)>>,
     filter |-> "LINEAR"]

MipmapBarrierToSrc ==
    /\ spc = "m_toSrc"
    /\ singleTime' = [singleTime EXCEPT !.cmds = Append(@, ToSrcBarrier(mipIndex))]
    /\ spc' = "m_blit"
    /\ UNCHANGED <<callVars, frameVars, oper, sret, oldLayout, newLayout, texWidth, texHeight,
                   mipLevels, mipWidth, mipHeight, mipIndex, formatLinear, layouts,
                   layoutHazard, stagingBuffer, descriptorsWritten, setupLog>>

MipmapBlit ==
    /\ spc = "m_blit"
    /\ singleTime' =
          [singleTime EXCEPT !.cmds = Append(@, Blit(mipIndex, mipWidth, mipHeight))]
    /\ spc' = "m_toRead"
    /\ UNCHANGED <<callVars, frameVars, oper, sret, oldLayout, newLayout, texWidth, texHeight,
                   mipLevels, mipWidth, mipHeight, mipIndex, formatLinear, layouts,
                   layoutHazard, stagingBuffer, descriptorsWritten, setupLog>>

\* the second barrier, if (mipWidth > 1) mipWidth /= 2, the same for
\* mipHeight, and ++i
MipmapBarrierToRead ==
    /\ spc = "m_toRead"
    /\ singleTime' = [singleTime EXCEPT !.cmds = Append(@, ToReadBarrier(mipIndex))]
    /\ mipWidth' = IF mipWidth > 1 THEN mipWidth \div 2 ELSE mipWidth
    /\ mipHeight' = IF mipHeight > 1 THEN mipHeight \div 2 ELSE mipHeight
    /\ mipIndex' = mipIndex + 1
    /\ spc' = "m_loop"
    /\ UNCHANGED <<callVars, frameVars, oper, sret, oldLayout, newLayout, texWidth, texHeight,
                   mipLevels, formatLinear, layouts, layoutHazard, stagingBuffer,
                   descriptorsWritten, setupLog>>

MipmapLastBarrier ==
    /\ spc = "m_last"
    /\ singleTime' = [singleTime EXCEPT !.cmds = Append(@, LastBarrier(mipLevels))]
    /\ spc' = "end"
    /\ UNCHANGED <<callVars, frameVars, oper, sret, oldLayout, newLayout, texWidth, texHeight,
                   mipLevels, mipWidth, mipHeight, mipIndex, formatLinear, layouts,
                   layoutHazard, stagingBuffer, descriptorsWritten, setupLog>>

\* what is left of frameVars when pc and live are taken out
frameRest ==
    <<retTo, currentFrame, framebufferResized, imageIndex, width, height, windowVars,
      swapChain, swapChainImages, swapChainImageViews, swapChainFramebuffers,
      swapChainExtent, colorImage, colorImageMemory, colorImageView, depthImage,
      depthImageMemory, depthImageView, created, syncVars, gpuVars, histVars>>

\* createTextureImageView, createTextureSampler, loadModel; initVulkan goes
\* on to createVertexBuffer
CreateTextureImageView ==
    /\ spc = "tex_view"
    /\ live' = live \cup {textureImageView, textureSampler}
    /\ oper' = "vertexBuffer"
    /\ spc' = "vb_staging"
    /\ UNCHANGED <<callVars, pc, frameRest, sret, oldLayout, newLayout, texWidth, texHeight,
                   mipLevels, mipWidth, mipHeight, mipIndex, formatLinear, singleTime,
                   layouts, layoutHazard, stagingBuffer, descriptorsWritten, setupLog>>

\* the buffer and the allocation createVertexBuffer or createIndexBuffer
\* leaves in the members
UploadedObjects(o) ==
    IF o = "vertexBuffer"
    THEN {Obj("vertexBuffer", 0, 0, {}), Obj("vertexBufferMemory", 0, 0, {})}
    ELSE {Obj("indexBuffer", 0, 0, {}), Obj("indexBufferMemory", 0, 0, {})}

\* createVertexBuffer / createIndexBuffer: createBuffer of the staging buffer,
\* vkMapMemory, memcpy, vkUnmapMemory
CreateUploadStagingBuffer ==
    /\ spc \in {"vb_staging", "ib_staging"}
    /\ stagingBuffer' = "live"
    /\ spc' = IF spc = "vb_staging" THEN "vb_buffer" ELSE "ib_buffer"
    /\ UNCHANGED <<callVars, frameVars, oper, sret, oldLayout, newLayout, texWidth, texHeight,
                   mipLevels, mipWidth, mipHeight, mipIndex, formatLinear, singleTime,
                   layouts, layoutHazard, descriptorsWritten, setupLog>>

\* createBuffer of the device-local buffer, which throws when vkCreateBuffer
\* or vkAllocateMemory fails, and the call copyBuffer(stagingBuffer, buffer)
CreateDeviceBuffer ==
    /\ spc \in {"vb_buffer", "ib_buffer"}
    /\ \/ /\ live' = live \cup UploadedObjects(oper)
          /\ oper' = "copyBuffer"
          /\ sret' = IF spc = "vb_buffer" THEN "vb_unstage" ELSE "ib_unstage"
          /\ spc' = "begin"
       \/ /\ spc' = "s_fatal"
          /\ UNCHANGED <<live, oper, sret>>
    /\ UNCHANGED <<callVars, pc, frameRest, oldLayout, newLayout, texWidth, texHeight,
                   mipLevels, mipWidth, mipHeight, mipIndex, formatLinear, singleTime,
                   layouts, layoutHazard, stagingBuffer, descriptorsWritten, setupLog>>

\* copyBuffer: vkCmdCopyBuffer from the staging buffer
CmdCopyBuffer ==
    /\ spc = "b_copy"
    /\ singleTime' =
          [singleTime EXCEPT !.cmds =
              Append(@, [cmd |-> "copyBuffer", src |-> "stagingBuffer",
                         dst |-> IF sret = "vb_unstage" THEN "vertexBuffer"
                                 ELSE "indexBuffer"])]
    /\ spc' = "end"
    /\ UNCHANGED <<callVars, frameVars, oper, sret, oldLayout, newLayout, texWidth, texHeight,
                   mipLevels, mipWidth, mipHeight, mipIndex, formatLinear, layouts,
                   layoutHazard, stagingBuffer, descriptorsWritten, setupLog>>

\* createVertexBuffer / createIndexBuffer destroy the staging buffer, free
\* its memory and return
DestroyUploadStagingBuffer ==
    /\ spc \in {"vb_unstage", "ib_unstage"}
    /\ stagingBuffer' = "destroyed"
    /\ oper' = IF spc = "vb_unstage" THEN "indexBuffer" ELSE "texture"
    /\ spc' = IF spc = "vb_unstage" THEN "ib_staging" ELSE "descriptors"
    /\ UNCHANGED <<callVars, frameVars, sret, oldLayout, newLayout, texWidth, texHeight,
                   mipLevels, mipWidth, mipHeight, mipIndex, formatLinear, singleTime,
                   layouts, layoutHazard, descriptorsWritten, setupLog>>

\* createUniformBuffers, createDescriptorPool, createDescriptorSets
\* (vkUpdateDescriptorSets names textureImageView with layout
\* SHADER_READ_ONLY_OPTIMAL), createCommandBuffers, createSyncObjects
CreateDescriptorSets ==
    /\ spc = "descriptors"
    /\ live' = live \cup PerSlotObjects \cup {Obj("descriptorPool", 0, 0, {})}
    /\ descriptorsWritten' = TRUE
    /\ spc' = "init_return"
    /\ UNCHANGED <<callVars, pc, frameRest, oper, sret, oldLayout, newLayout, texWidth, texHeight,
                   mipLevels, mipWidth, mipHeight, mipIndex, formatLinear, singleTime,
                   layouts, layoutHazard, stagingBuffer, setupLog>>

\* initVulkan returns and run() enters mainLoop
InitVulkanReturns ==
    /\ spc = "init_return"
    /\ spc' = "s_done"
    /\ oper' = "none"
    /\ setupLog' = <<>>
    /\ pc' = "loop"
    /\ UNCHANGED <<callVars, live, frameRest, sret, oldLayout, newLayout, texWidth, texHeight,
                   mipLevels, mipWidth, mipHeight, mipIndex, formatLinear, singleTime,
                   layouts, layoutHazard, stagingBuffer, descriptorsWritten>>

SetupNext ==
    \/ LoadTexture
    \/ CreateStagingBuffer
    \/ CreateTextureImage
    \/ BeginSingleTimeCommands
    \/ TransitionBarrier
    \/ CallCopyBufferToImage
    \/ CopyBufferToImage
    \/ EndCommandBuffer
    \/ SubmitSingleTime
    \/ QueueWaitIdle
    \/ FreeCommandBuffers
    \/ DestroyStagingBuffer
    \/ MipmapFormatCheck
    \/ MipmapInit
    \/ MipmapLoopTest
    \/ MipmapBarrierToSrc
    \/ MipmapBlit
    \/ MipmapBarrierToRead
    \/ MipmapLastBarrier
    \/ CreateTextureImageView
    \/ CreateUploadStagingBuffer
    \/ CreateDeviceBuffer
    \/ CmdCopyBuffer
    \/ DestroyUploadStagingBuffer
    \/ CreateDescriptorSets
    \/ InitVulkanReturns

SetupSpec == SetupInit /\ [][SetupNext]_vars

\* ------------------------------------------- chooseSwapExtent on its own

\* extents a surface may report as bounds: 1 .. MaxSurfaceExtent per
\* dimension, and the bounds of up to 4096 x 4096 of a desktop surface
SurfaceExtents ==
    ((1 .. MaxSurfaceExtent) \X (1 .. MaxSurfaceExtent)) \cup {<<4096, 4096>>}

\* framebuffer sizes glfwGetFramebufferSize may report
FramebufferSizes ==
    ((0 .. MaxFramebufferSize) \X (0 .. MaxFramebufferSize)) \cup {<<1280, 720>>}

\* VkSurfaceCapabilitiesKHR values chooseSwapExtent is called with: the
\* current extent is the marker, the marker in the width only, or an extent;
\* minImageExtent is at most maxImageExtent in both dimensions
ExtentCapabilities ==
    {c \in [currentExtent : {<<UINT32_MAX, UINT32_MAX>>, <<UINT32_MAX, 1>>,
                               <<1, UINT32_MAX>>} \cup ((0 .. 2) \X (0 .. 2)),
             minImageExtent : SurfaceExtents,
             maxImageExtent : SurfaceExtents] :
        /\ c.minImageExtent[1] <= c.maxImageExtent[1]
        /\ c.minImageExtent[2] <= c.maxImageExtent[2]}

\* a call of chooseSwapExtent is about to be made
ExtentInit ==
    /\ FrameInit("ext_query", PersistentObjects)
    /\ SetupDone(1, 1)
    /\ details = NoCapabilities
    /\ args = NoCall
    /\ ret = NoReturn

\* querySwapChainSupport: the capabilities of the surface, with the window
\* at any size
QuerySwapChainSupport ==
    /\ pc = "ext_query"
    /\ \E c \in ExtentCapabilities, size \in FramebufferSizes :
          /\ details' = c
          /\ winW' = size[1]
          /\ winH' = size[2]
    /\ pc' = "ext_choose"
    /\ UNCHANGED <<retTo, currentFrame, framebufferResized, imageIndex, width, height,
                   shouldClose, events, swapVars, syncVars, gpuVars, histVars, setupVars,
                   args, ret>>

\* extent = chooseSwapExtent(details.capabilities); swapChainExtent = extent
ChooseSwapExtent ==
    /\ pc = "ext_choose"
    /\ swapChainExtent' = chooseSwapExtent(details, winW, winH)
    /\ pc' = "ext_done"
    /\ UNCHANGED <<retTo, currentFrame, framebufferResized, imageIndex, width, height,
                   windowVars, swapChain, swapChainImages, swapChainImageViews,
                   swapChainFramebuffers, colorImage, colorImageMemory, colorImageView,
                   depthImage, depthImageMemory, depthImageView, created, live,
                   syncVars, gpuVars, histVars, setupVars, callVars>>

ExtentNext ==
    \/ QuerySwapChainSupport
    \/ ChooseSwapExtent

ExtentSpec == ExtentInit /\ [][ExtentNext]_vars

\* -------------------------------------------- functions without effects

\* mutant: maxImageCount = 0 is taken for a limit like any other
RequestedImageCount_ZeroIsLimit(capabilities) ==
    LET imageCount == capabilities.minImageCount + 1
    IN  IF imageCount > capabilities.maxImageCount
        THEN capabilities.maxImageCount
        ELSE imageCount

\* createSwapChain: imageCount = minImageCount + 1, replaced by maxImageCount
\* if that is positive and smaller
RequestedImageCount(capabilities) ==
    LET imageCount == capabilities.minImageCount + 1
    IN  IF capabilities.maxImageCount > 0 /\ imageCount > capabilities.maxImageCount
        THEN capabilities.maxImageCount
        ELSE imageCount

\* arguments createSwapChain's image count is computed from
ImageCountCalls ==
    [fn : {"imageCount"},
     minImageCount : 0 .. MaxImageCount,
     maxImageCount : 0 .. MaxImageCount]

\* sequences over S of length 1 .. n
SeqsUpTo(S, n) == UNION {[1 .. k -> S] : k \in 1 .. n}

\* VkSurfaceFormatKHR values a surface may list
SurfaceFormats ==
    [format : {"VK_FORMAT_B8G8R8A8_SRGB", "VK_FORMAT_B8G8R8A8_UNORM",
               "VK_FORMAT_R8G8B8A8_SRGB"},
     colorSpace : {"VK_COLOR_SPACE_SRGB_NONLINEAR_KHR",
                   "VK_COLOR_SPACE_DISPLAY_P3_NONLINEAR_EXT"}]

\* mutant: the color space is not looked at
IsPreferredFormat_AnyColorSpace(availableFormat) ==
    availableFormat.format = "VK_FORMAT_B8G8R8A8_SRGB"

\* the test in chooseSwapSurfaceFormat's loop
IsPreferredFormat(availableFormat) ==
    /\ availableFormat.format = "VK_FORMAT_B8G8R8A8_SRGB"
    /\ availableFormat.colorSpace = "VK_COLOR_SPACE_SRGB_NONLINEAR_KHR"

\* chooseSwapSurfaceFormat's loop from position i on, then availableFormats[0]
\* (position 1 of the sequence)
RECURSIVE chooseSwapSurfaceFormatFrom(_, _)
chooseSwapSurfaceFormatFrom(availableFormats, i) ==
    IF i > Len(availableFormats)
    THEN availableFormats[1]
    ELSE IF IsPreferredFormat(availableFormats[i])
    THEN availableFormats[i]
    ELSE chooseSwapSurfaceFormatFrom(availableFormats, i + 1)

chooseSwapSurfaceFormat(availableFormats) ==
    chooseSwapSurfaceFormatFrom(availableFormats, 1)

\* non-empty lists chooseSwapSurfaceFormat is called with
SurfaceFormatCalls ==
    [fn : {"chooseSwapSurfaceFormat"},
     availableFormats : SeqsUpTo(SurfaceFormats, MaxFormats)]

\* std::optional<uint32_t> without a value
NoFamily == -1

\* findQueueFamilies' loop from family i (counted from 0) on, with the
\* indices found so far; it stops as soon as both have a value
RECURSIVE findQueueFamiliesFrom(_, _, _)
findQueueFamiliesFrom(queueFamilies, i, indices) ==
    IF i >= Len(queueFamilies)
    THEN indices
    ELSE LET queueFamily == queueFamilies[i + 1]
             found == [graphicsFamily |-> IF queueFamily.graphics THEN i
                                          ELSE indices.graphicsFamily,
                       presentFamily |-> IF queueFamily.present THEN i
                                         ELSE indices.presentFamily]
         IN  IF found.graphicsFamily # NoFamily /\ found.presentFamily # NoFamily
             THEN found
             ELSE findQueueFamiliesFrom(queueFamilies, i + 1, found)

findQueueFamilies(device) ==
    findQueueFamiliesFrom(device.queueFamilies, 0,
                          [graphicsFamily |-> NoFamily, presentFamily |-> NoFamily])

\* QueueFamilyIndices::isComplete
isComplete(indices) ==
    indices.graphicsFamily # NoFamily /\ indices.presentFamily # NoFamily

\* the condition in pickPhysicalDevice's loop
IsSuitable(device) ==
    /\ device.deviceType = "VK_PHYSICAL_DEVICE_TYPE_DISCRETE_GPU"
    /\ device.geometryShader
    /\ device.samplerAnisotropy
    /\ isComplete(findQueueFamilies(device))
    /\ device.extensionsSupported
    /\ device.formats /\ device.presentModes

\* pickPhysicalDevice's loop from device i on: the position of the first
\* suitable device, 0 (VK_NULL_HANDLE) if there is none
RECURSIVE pickPhysicalDeviceFrom(_, _)
pickPhysicalDeviceFrom(devices, i) ==
    IF i > Len(devices)
    THEN 0
    ELSE IF IsSuitable(devices[i])
    THEN i
    ELSE pickPhysicalDeviceFrom(devices, i + 1)

\* pickPhysicalDevice: throws if no device is enumerated or none is chosen
pickPhysicalDevice(devices) ==
    IF Len(devices) = 0
    THEN Thrown
    ELSE IF pickPhysicalDeviceFrom(devices, 1) = 0
    THEN Thrown
    ELSE Value(pickPhysicalDeviceFrom(devices, 1))

\* queue family lists tried: none, one family for both, one for each in
\* either order, graphics only, present only
QueueFamilyLists ==
    LET family(g, p) == [graphics |-> g, present |-> p]
    IN  {<<>>, <<family(TRUE, TRUE)>>, <<family(TRUE, FALSE), family(FALSE, TRUE)>>,
         <<family(FALSE, TRUE), family(TRUE, FALSE)>>, <<family(TRUE, FALSE)>>,
         <<family(FALSE, TRUE)>>}

\* what the queries of pickPhysicalDevice may report of a device; formats
\* and presentModes say whether the list is non-empty
PhysicalDevices ==
    [deviceType : {"VK_PHYSICAL_DEVICE_TYPE_DISCRETE_GPU",
                   "VK_PHYSICAL_DEVICE_TYPE_INTEGRATED_GPU"},
     geometryShader : BOOLEAN,
     samplerAnisotropy : BOOLEAN,
     queueFamilies : QueueFamilyLists,
     extensionsSupported : BOOLEAN,
     formats : BOOLEAN,
     presentModes : BOOLEAN]

\* how many of the things pickPhysicalDevice asks for a device lacks
Lacks(device) ==
    Cardinality({t \in {"type", "geometry", "anisotropy", "families", "extensions",
                        "formats", "modes"} :
        \/ t = "type" /\ device.deviceType # "VK_PHYSICAL_DEVICE_TYPE_DISCRETE_GPU"
        \/ t = "geometry" /\ ~device.geometryShader
        \/ t = "anisotropy" /\ ~device.samplerAnisotropy
        \/ t = "families" /\ ~isComplete(findQueueFamilies(device))
        \/ t = "extensions" /\ ~device.extensionsSupported
        \/ t = "formats" /\ ~device.formats
        \/ t = "modes" /\ ~device.presentModes})

\* device lists pickPhysicalDevice is tried with: up to MaxDevices devices
\* that lack at most one thing
PickPhysicalDeviceCalls ==
    [fn : {"pickPhysicalDevice"},
     devices : {<<>>} \cup SeqsUpTo({d \in PhysicalDevices : Lacks(d) <= 1}, MaxDevices)]

\* typeFilter & (1 << i)
BitSet(typeFilter, i) == (typeFilter \div (2 ^ i)) % 2 = 1

\* mutant: one of the requested flags is enough
HasProperties_Some(propertyFlags, properties) == propertyFlags \cap properties # {}

\* (propertyFlags & properties) == properties, flag masks as sets of flags
HasProperties(propertyFlags, properties) ==
    propertyFlags \cap properties = properties

\* findMemoryType's loop from index i on; it throws after the last type
RECURSIVE findMemoryTypeFrom(_, _, _, _)
findMemoryTypeFrom(memoryTypes, typeFilter, properties, i) ==
    IF i >= Len(memoryTypes)
    THEN Thrown
    ELSE IF BitSet(typeFilter, i) /\ HasProperties(memoryTypes[i + 1], properties)
    THEN Value(i)
    ELSE findMemoryTypeFrom(memoryTypes, typeFilter, properties, i + 1)

findMemoryType(memoryTypes, typeFilter, properties) ==
    findMemoryTypeFrom(memoryTypes, typeFilter, properties, 0)

\* VkMemoryPropertyFlags values tried
MemoryPropertyFlags ==
    SUBSET {"VK_MEMORY_PROPERTY_DEVICE_LOCAL_BIT", "VK_MEMORY_PROPERTY_HOST_VISIBLE_BIT"}

\* findMemoryType's arguments and the device's memory types: up to
\* MaxMemoryTypes types, filters with bits up to one past the last type
FindMemoryTypeCalls ==
    [fn : {"findMemoryType"},
     memoryTypes : {<<>>} \cup SeqsUpTo(MemoryPropertyFlags, MaxMemoryTypes),
     typeFilter : 0 .. (2 ^ (MaxMemoryTypes + 1) - 1),
     properties : MemoryPropertyFlags]

\* float values of an .obj file, and the entries of attrib.vertices and
\* attrib.texcoords a face vertex may refer to
Floats == {0, 1}
AttribIndices == {0, 1}

\* mutant: only the position is compared
VertexEquals_PosOnly(a, b) == a.pos = b.pos

\* Vertex::operator==
VertexEquals(a, b) ==
    /\ a.pos = b.pos
    /\ a.color = b.color
    /\ a.texCoord = b.texCoord

\* the Vertex the loop body builds for one index of shape.mesh.indices
MakeVertex(attrib, index) ==
    [pos |-> <<attrib.vertices[3 * index.vertex_index + 0],
               attrib.vertices[3 * index.vertex_index + 1],
               attrib.vertices[3 * index.vertex_index + 2]>>,
     texCoord |-> <<attrib.texcoords[2 * index.texcoord_index + 0],
                    1 - attrib.texcoords[2 * index.texcoord_index + 1]>>,
     color |-> <<1, 1, 1>>]

\* uniqueVertices.count(vertex): the map is a set of <<key, value>> pairs
Count(uniqueVertices, vertex) ==
    Cardinality({e \in uniqueVertices : VertexEquals(e[1], vertex)})

\* uniqueVertices[vertex] of a key that is present
Lookup(uniqueVertices, vertex) ==
    (CHOOSE e \in uniqueVertices : VertexEquals(e[1], vertex))[2]

\* static_cast<uint32_t>(vertices.size()), positions counted from 0
NewIndex(vertices) == Len(vertices)

\* the body of the inner loop for one vertex: m holds uniqueVertices and the
\* members vertices and indices
LoadModelStep(m, vertex) ==
    LET fresh == Count(m.uniqueVertices, vertex) = 0
        unique == IF fresh
                  THEN m.uniqueVertices \cup {<<vertex, NewIndex(m.vertices)>>}
                  ELSE m.uniqueVertices
        pushed == IF fresh THEN Append(m.vertices, vertex) ELSE m.vertices
    IN  [uniqueVertices |-> unique,
         vertices |-> Append(pushed, vertex),
         indices |-> Append(m.indices, Lookup(unique, vertex))]

\* the loops over the shapes and their mesh indices, from the i-th index on;
\* meshIndices is the shapes' index lists one after the other
RECURSIVE loadModelFrom(_, _, _, _)
loadModelFrom(attrib, meshIndices, i, m) ==
    IF i > Len(meshIndices) THEN m
    ELSE loadModelFrom(attrib, meshIndices, i + 1,
                       LoadModelStep(m, MakeVertex(attrib, meshIndices[i])))

\* loadModel(): throws when tinyobj::LoadObj fails, else fills the members
\* vertices and indices, which are empty before
loadModel(ok, attrib, meshIndices) ==
    IF ~ok THEN Thrown
    ELSE LET m == loadModelFrom(attrib, meshIndices, 1,
                      [uniqueVertices |-> {}, vertices |-> <<>>, indices |-> <<>>])
         IN  Value([vertices |-> m.vertices, indices |-> m.indices])

\* what tinyobj::LoadObj delivers: the float arrays and the face vertices,
\* each with its indices into the arrays
MeshIndices == [vertex_index : AttribIndices, texcoord_index : AttribIndices]

Attribs ==
    [vertices : [0 .. (3 * Cardinality(AttribIndices) - 1) -> Floats],
     texcoords : [0 .. (2 * Cardinality(AttribIndices) - 1) -> Floats]]

LoadModelCalls ==
    [fn : {"loadModel"}, ok : {TRUE}, attrib : Attribs,
     meshIndices : {<<>>} \cup SeqsUpTo(MeshIndices, MaxFaceVertices)]
        \cup [fn : {"loadModel"}, ok : {FALSE},
              attrib : {[vertices |-> [k \in 0 .. 5 |-> 0], texcoords |-> [k \in 0 .. 3 |-> 0]]},
              meshIndices : {<<>>}]

\* the calls that are tried, each with its arguments
Calls ==
    ImageCountCalls \cup SurfaceFormatCalls \cup PickPhysicalDeviceCalls
        \cup FindMemoryTypeCalls \cup LoadModelCalls

\* one of the functions is about to be called with some arguments
CallInit ==
    /\ FrameInit("call", PersistentObjects)
    /\ SetupDone(1, 1)
    /\ details = NoCapabilities
    /\ args \in Calls
    /\ ret = NoReturn

\* the call ends with r: a value returned or an exception thrown
Return(r) ==
    /\ pc = "call"
    /\ ret' = r
    /\ pc' = IF r.thrown THEN "fatal" ELSE "returned"
    /\ UNCHANGED <<frameRest, live, setupVars, details, args>>

\* createSwapChain computes imageCount
ImageCount ==
    /\ args.fn = "imageCount"
    /\ Return(Value(RequestedImageCount(args)))

\* surfaceFormat = chooseSwapSurfaceFormat(details.formats)
ChooseSwapSurfaceFormat ==
    /\ args.fn = "chooseSwapSurfaceFormat"
    /\ Return(Value(chooseSwapSurfaceFormat(args.availableFormats)))

\* pickPhysicalDevice()
PickPhysicalDevice ==
    /\ args.fn = "pickPhysicalDevice"
    /\ Return(pickPhysicalDevice(args.devices))

\* findMemoryType(typeFilter, properties)
FindMemoryType ==
    /\ args.fn = "findMemoryType"
    /\ Return(findMemoryType(args.memoryTypes, args.typeFilter, args.properties))

\* loadModel()
LoadModel ==
    /\ args.fn = "loadModel"
    /\ Return(loadModel(args.ok, args.attrib, args.meshIndices))

CallNext ==
    \/ ImageCount
    \/ ChooseSwapSurfaceFormat
    \/ PickPhysicalDevice
    \/ FindMemoryType
    \/ LoadModel

CallSpec == CallInit /\ [][CallNext]_vars

\* ------------------------------------------------------------------ claims

\* positions of the log that hold a call of the given name
LogOps(name) == {i \in DOMAIN log : log[i].op = name}

\* batches on the graphics queue that execute command buffer f
BatchesUsing(f) == {k \in DOMAIN graphicsQueue : graphicsQueue[k].commandBuffer = f}

\* the slot a drawFrame call was entered with: the fence its first call waits on
EntrySlot == log[1].a

\* C1: the host resets or re-records slot f's command buffer only after the
\* vkWaitForFences on fence f of this drawFrame call has returned, with no
\* vkQueueSubmit of that command buffer since, and never while a batch that
\* executes the command buffer is outstanding on the graphics queue.
C1_WaitBeforeReset ==
    pc \in {"resetCmd", "record"} =>
        /\ \E i \in LogOps("vkWaitForFences") : log[i].a = currentFrame
        /\ LogOps("vkQueueSubmit") = {}
        /\ BatchesUsing(currentFrame) = {}

\* C1 witness: the command buffer of a slot that was submitted before is about
\* to be reset while the other slot's batch is still executing
C1_Witness ==
    /\ pc = "resetCmd"
    /\ everSubmitted[currentFrame]
    /\ graphicsQueue # <<>>

\* the calls drawFrame makes after a successful acquire
FrameOps ==
    {"updateUniformBuffer", "vkResetFences", "vkResetCommandBuffer",
     "recordCommandBuffer", "vkQueueSubmit", "vkQueuePresentKHR", "advance"}

\* vkAcquireNextImageKHR of the current drawFrame call reported out-of-date
AcquireOutOfDate ==
    \E i \in LogOps("vkAcquireNextImageKHR") : log[i].res = "VK_ERROR_OUT_OF_DATE_KHR"

\* C2: from an out-of-date acquire to the return of drawFrame, recreateSwapchain
\* is called once and nothing else of the frame is done: no fence reset, no
\* uniform write, no command buffer reset or recording, no submit, no present;
\* currentFrame keeps its value and the slot's fence stays signaled; drawFrame
\* returns right after the recreation.
C2_OutOfDateAcquireAborts ==
    AcquireOutOfDate =>
        /\ \A i \in DOMAIN log : log[i].op \notin FrameOps
        /\ Cardinality(LogOps("recreateSwapchain")) = 1
        /\ currentFrame = EntrySlot
        /\ inFlightFences[currentFrame]
        /\ BatchesUsing(currentFrame) = {}
        /\ pc = "loop" => log[Len(log)].op = "createFramebuffers"

\* C2 witness: drawFrame has returned from an out-of-date acquire on a slot
\* that had been submitted before
C2_Witness ==
    /\ pc = "loop"
    /\ AcquireOutOfDate
    /\ everSubmitted[currentFrame]

\* the present call at log position i was followed by the recreation branch's
\* condition: out-of-date, suboptimal, or framebufferResized set
PresentAsksRecreate(i) ==
    \/ log[i].res \in {"VK_ERROR_OUT_OF_DATE_KHR", "VK_SUBOPTIMAL_KHR"}
    \/ log[i + 1].a = 1

\* C3: when drawFrame returns after a present that reported out-of-date or
\* suboptimal, or that found framebufferResized set, recreateSwapchain was
\* called exactly once in that call, after the present, and currentFrame is
\* one past the slot the call was entered with, modulo MAX_FRAMES_IN_FLIGHT.
C3_PresentRecreatesOnce ==
    pc = "loop" =>
        \A i \in LogOps("vkQueuePresentKHR") :
            PresentAsksRecreate(i) =>
                /\ Cardinality(LogOps("recreateSwapchain")) = 1
                /\ \A r \in LogOps("recreateSwapchain") : r > i
                /\ log[Len(log)].op = "advance"
                /\ currentFrame = (EntrySlot + 1) % MAX_FRAMES_IN_FLIGHT

\* C3 witness: drawFrame has returned from a frame whose present reported
\* suboptimal with framebufferResized clear
C3_Witness ==
    /\ pc = "loop"
    /\ \E i \in LogOps("vkQueuePresentKHR") :
          log[i].res = "VK_SUBOPTIMAL_KHR" /\ log[i + 1].a = 0
    /\ LogOps("recreateSwapchain") # {}

\* the calls of drawFrame that C4 orders, as <<call, first index, second index>>
OrderedOps ==
    {"vkWaitForFences", "vkAcquireNextImageKHR", "updateUniformBuffer", "vkResetFences",
     "vkResetCommandBuffer", "recordCommandBuffer", "vkQueueSubmit",
     "vkQueuePresentKHR", "advance"}

IsOrderedOp(e) == e.op \in OrderedOps

OrderedLog ==
    LET calls == SelectSeq(log, IsOrderedOp)
    IN  [i \in DOMAIN calls |-> <<calls[i].op, calls[i].a, calls[i].b>>]

\* C4: a drawFrame call that reaches the currentFrame update has made, for
\* the slot f it was entered with and the image index it acquired, exactly
\* these calls in this order: wait on fence f; acquire with image-available
\* semaphore f; write uniform buffer f; reset fence f; reset command buffer f;
\* record command buffer f for the acquired image; submit command buffer f
\* with fence f; present the acquired image; advance currentFrame.
C4_FrameOrder ==
    (pc = "loop" /\ LogOps("advance") # {}) =>
        LET f     == EntrySlot
            image == log[2].b
        IN  /\ image # NoImage
            /\ OrderedLog =
                  <<<<"vkWaitForFences", f, 0>>,
                    <<"vkAcquireNextImageKHR", f, image>>,
                    <<"updateUniformBuffer", f, 0>>,
                    <<"vkResetFences", f, 0>>,
                    <<"vkResetCommandBuffer", f, 0>>,
                    <<"recordCommandBuffer", f, image>>,
                    <<"vkQueueSubmit", f, f>>,
                    <<"vkQueuePresentKHR", f, image>>,
                    <<"advance", (f + 1) % MAX_FRAMES_IN_FLIGHT, 0>>>>

\* C4 witness: a frame on the second slot has run to its end while the first
\* slot's batch was still executing
C4_Witness ==
    /\ pc = "loop"
    /\ LogOps("advance") # {}
    /\ EntrySlot = 1
    /\ Len(graphicsQueue) = MAX_FRAMES_IN_FLIGHT

\* the step in which vkQueueSubmit accepts the frame's batch
SubmitStep == pc = "submit" /\ pc' = "present"

\* the step in which vkQueuePresentKHR queues the frame's present request
PresentStep == pc = "present" /\ Len(presentQueue') = Len(presentQueue) + 1

\* C5: the batch drawFrame submits for slot f waits, at the
\* color-attachment-output stage, on image-available semaphore f, which is the
\* semaphore this frame's acquire was given and which that acquire has left
\* pending; it renders to the framebuffer of the acquired image and signals
\* render-finished semaphore f and fence f.  The present request of the frame
\* waits on that render-finished semaphore and presents the image index this
\* frame acquired, from the swapchain it was acquired from.
C5_FrameWiring ==
    [][/\ SubmitStep =>
             LET batch == graphicsQueue'[Len(graphicsQueue')]
             IN  /\ Len(graphicsQueue') = Len(graphicsQueue) + 1
                 /\ batch.waitSemaphore = currentFrame
                 /\ batch.waitSemaphore = log[2].a
                 /\ log[2].op = "vkAcquireNextImageKHR"
                 /\ imageAvailableSemaphores[batch.waitSemaphore] = "signaled"
                 /\ batch.waitStage = "COLOR_ATTACHMENT_OUTPUT"
                 /\ batch.signalSemaphore = currentFrame
                 /\ batch.fence = currentFrame
                 /\ commandBuffers[batch.commandBuffer].framebuffer =
                        swapChainFramebuffers[log[2].b]
       /\ PresentStep =>
             LET request == presentQueue'[Len(presentQueue')]
             IN  /\ request.waitSemaphore = currentFrame
                 /\ \E i \in LogOps("vkQueueSubmit") : log[i].a = request.waitSemaphore
                 /\ request.image = log[2].b
                 /\ request.image = imageIndex
                 /\ request.swapchain = swapChain
                 /\ swapChain \in live
                 /\ LogOps("recreateSwapchain") = {}
                 /\ imageState[request.image] = "acquired"]_vars

\* C5 witness: the frame's present request is queued behind its batch, which
\* the graphics queue has not completed yet
C5_Witness ==
    /\ pc = "advance"
    /\ presentQueue # <<>>
    /\ presentQueue[Len(presentQueue)].waitSemaphore = currentFrame
    /\ presentQueue[Len(presentQueue)].image = imageIndex
    /\ \E k \in DOMAIN graphicsQueue : graphicsQueue[k].signalSemaphore = currentFrame

\* batches on the graphics queue whose command buffer reads uniform buffer f
ReadersOf(f) ==
    {k \in DOMAIN graphicsQueue :
        uniformBuffers[f] \in commandBuffers[graphicsQueue[k].commandBuffer].descriptorSet.from}

\* C6: when the host is about to write slot f's mapped uniform buffer, no
\* batch outstanding on the graphics queue executes a command buffer whose
\* bound descriptor set refers to that uniform buffer.
C6_UniformWriteNoReader ==
    pc = "update" => ReadersOf(currentFrame) = {}

\* C6 witness: the uniform buffer of a slot that was submitted before is about
\* to be written while the other slot's batch is still executing
C6_Witness ==
    /\ pc = "update"
    /\ everSubmitted[currentFrame]
    /\ graphicsQueue # <<>>
    /\ commandBuffers[currentFrame].state = "executable"

\* C7: each slot has at most one batch outstanding on the graphics queue,
\* whether counted by command buffer, by wait semaphore, by signal semaphore
\* or by fence; hence at most MAX_FRAMES_IN_FLIGHT batches are outstanding.
C7_OneSubmissionPerSlot ==
    /\ \A f \in Slots :
          /\ Cardinality({k \in DOMAIN graphicsQueue : graphicsQueue[k].commandBuffer = f}) <= 1
          /\ Cardinality({k \in DOMAIN graphicsQueue : graphicsQueue[k].waitSemaphore = f}) <= 1
          /\ Cardinality({k \in DOMAIN graphicsQueue : graphicsQueue[k].signalSemaphore = f}) <= 1
          /\ Cardinality({k \in DOMAIN graphicsQueue : graphicsQueue[k].fence = f}) <= 1
    /\ Len(graphicsQueue) <= MAX_FRAMES_IN_FLIGHT

\* C7 witness: every slot has a batch outstanding and the host is blocked in
\* the fence wait of the next frame
C7_Witness ==
    /\ pc = "wait"
    /\ Len(graphicsQueue) = MAX_FRAMES_IN_FLIGHT
    /\ ~inFlightFences[currentFrame]

\* C8: the fences are created signaled: until the first submission nothing
\* has unsignaled any of them when a frame starts, and whenever the host
\* stands at the fence wait of a slot that no submission was ever made on,
\* that slot's fence is signaled, so the wait returns.
C8_FirstWaitReturns ==
    /\ (pc \in {"loop", "poll", "wait"} /\ \A f \in Slots : ~everSubmitted[f]) =>
           \A f \in Slots : inFlightFences[f]
    /\ (pc = "wait" /\ ~everSubmitted[currentFrame]) => inFlightFences[currentFrame]
    /\ (pc = "acquire" /\ ~everSubmitted[currentFrame]) =>
           log[Len(log)] = Op("vkWaitForFences", currentFrame, 0)

\* C8 witness: the first wait on the second slot has returned, with no
\* submission ever made on that slot, while the first slot's batch executes
C8_Witness ==
    /\ pc = "acquire"
    /\ currentFrame = 1
    /\ ~everSubmitted[1]
    /\ everSubmitted[0]
    /\ graphicsQueue # <<>>

\* the steps of recreateSwapchain in the order of its body
RecreateOrder ==
    <<"vkDeviceWaitIdle", "cleanupSwapchain", "createSwapChain", "createImageViews",
      "createColorResources", "createDepthResources", "createFramebuffers">>

IsRecreateStep(e) == \E k \in DOMAIN RecreateOrder : e.op = RecreateOrder[k]

\* the steps logged since recreateSwapchain was entered at log position r
RecreateStepsSince(r) ==
    LET steps == SelectSeq(SubSeq(log, r + 1, Len(log)), IsRecreateStep)
    IN  [k \in DOMAIN steps |-> steps[k].op]

\* the objects the swapchain members refer to
SwapchainObjects ==
    {swapChain, colorImage, colorImageMemory, colorImageView,
     depthImage, depthImageMemory, depthImageView}
    \cup Range(swapChainImages) \cup Range(swapChainImageViews)
    \cup Range(swapChainFramebuffers)

\* C9: the steps recreateSwapchain has taken so far are an initial part of:
\* device-idle wait, cleanupSwapchain, createSwapChain, createImageViews,
\* createColorResources, createDepthResources, createFramebuffers.  Until
\* the device-idle wait has returned every swapchain object is still alive,
\* and when cleanupSwapchain runs no batch and no present request is
\* outstanding.  Until cleanup() destroys the objects that exist once, every
\* live object depends on live objects only.
C9_RecreateOrder ==
    /\ \A r \in LogOps("recreateSwapchain") :
          LET steps == RecreateStepsSince(r)
          IN  /\ Len(steps) <= Len(RecreateOrder)
              /\ steps = SubSeq(RecreateOrder, 1, Len(steps))
              /\ (pc \in {"loop", "advance"} /\ retTo = "none") => steps = RecreateOrder
    /\ pc \in {"rc_size", "rc_get", "rc_wait", "rc_idle", "rc_cleanup"} =>
          SwapchainObjects \subseteq live
    /\ pc = "rc_cleanup" => graphicsQueue = <<>> /\ presentQueue = <<>>
    /\ pc # "cleanup_rest" => \A o \in live : o.from \subseteq live

\* C9 witness: a recreation entered from the present path has just built the
\* framebuffers of the second swapchain
C9_Witness ==
    /\ pc = "advance"
    /\ log[Len(log)].op = "createFramebuffers"
    /\ created = 2
    /\ everSubmitted[currentFrame]

\* C10: outside recreateSwapchain and before cleanup, the live
\* swapchain-dependent objects are exactly those the members refer to, one
\* of them is a swapchain, and all belong to the latest createSwapChain call.
\* At every moment at most one swapchain is live and all live
\* swapchain-dependent objects belong to one generation.
C10_SingleGeneration ==
    /\ (retTo = "none" /\ pc \notin {"cleanup_rest", "done"}) =>
          /\ live \ PersistentObjects = SwapchainObjects
          /\ \A o \in SwapchainObjects : o.gen = created
          /\ Cardinality({o \in live : o.kind = "swapchain"}) = 1
    /\ Cardinality({o \in live : o.kind = "swapchain"}) <= 1
    /\ \A o1, o2 \in live \ PersistentObjects : o1.gen = o2.gen

\* C10 witness: drawFrame has returned after the second recreation
C10_Witness ==
    /\ pc = "loop"
    /\ retTo = "none"
    /\ created = 3
    /\ Cardinality({o \in live : o.kind = "swapchain"}) = 1

\* C11: recreateSwapchain goes on to the device-idle wait, the teardown and
\* createSwapChain only with a framebuffer size in its hands whose width and
\* height are both nonzero, and the size createSwapChain finds when it builds
\* the swapchain is nonzero in both dimensions as well.
C11_NoZeroSizeSwapchain ==
    /\ pc \in {"rc_idle", "rc_cleanup", "rc_swapchain"} => (width # 0 /\ height # 0)
    /\ pc = "rc_views" => (winW # 0 /\ winH # 0 /\ width # 0 /\ height # 0)

\* the part of C11 that the loop of recreateSwapchain does establish: the size
\* it read last before leaving the loop is nonzero in both dimensions
C11_ObservedNonzero ==
    pc \in {"rc_idle", "rc_cleanup", "rc_swapchain", "rc_views"} =>
        (width # 0 /\ height # 0)

\* a swapchain has just been created while the window is minimised, after the
\* loop was left on a size read before the last glfwWaitEvents
C11_ZeroSizeCreated ==
    /\ pc = "rc_views"
    /\ (winW = 0 \/ winH = 0)
    /\ width # 0 /\ height # 0

\* the one-time command buffer of the running function holds its commands
Recorded == spc \in {"end", "submit", "waitIdle", "free"}

\* the pairs of layouts the specification lists as supported
SupportedPairs ==
    {<<"UNDEFINED", "TRANSFER_DST_OPTIMAL">>,
     <<"TRANSFER_DST_OPTIMAL", "SHADER_READ_ONLY_OPTIMAL">>,
     <<"UNDEFINED", "DEPTH_STENCIL_ATTACHMENT_OPTIMAL">>}

\* access masks and stages a barrier carries
BarrierTuple(b) == <<b.srcAccessMask, b.dstAccessMask, b.srcStage, b.dstStage>>

\* C12: a transitionImageLayout call with one of the three supported pairs
\* does not throw and records exactly one barrier, from the old to the new
\* layout over all mipLevels levels, with: UNDEFINED to TRANSFER_DST: no source
\* access, transfer-write, top-of-pipe to transfer; TRANSFER_DST to
\* SHADER_READ_ONLY: transfer-write, shader-read, transfer to fragment-shader;
\* UNDEFINED to DEPTH_STENCIL_ATTACHMENT: no source access, depth-stencil
\* read and write, top-of-pipe to early-fragment-tests.
C12_SupportedTransitions ==
    (oper = "transition" /\ <<oldLayout, newLayout>> \in SupportedPairs) =>
        /\ spc # "s_fatal"
        /\ Recorded =>
              /\ Len(singleTime.cmds) = 1
              /\ singleTime.cmds[1].cmd = "barrier"
              /\ singleTime.cmds[1].oldLayout = oldLayout
              /\ singleTime.cmds[1].newLayout = newLayout
              /\ singleTime.cmds[1].baseMipLevel = 0
              /\ singleTime.cmds[1].levelCount = mipLevels
              /\ BarrierTuple(singleTime.cmds[1]) =
                    IF newLayout = "TRANSFER_DST_OPTIMAL"
                    THEN <<{}, {"TRANSFER_WRITE"}, "TOP_OF_PIPE", "TRANSFER">>
                    ELSE IF newLayout = "SHADER_READ_ONLY_OPTIMAL"
                    THEN <<{"TRANSFER_WRITE"}, {"SHADER_READ"}, "TRANSFER",
                           "FRAGMENT_SHADER">>
                    ELSE <<{}, {"DEPTH_STENCIL_ATTACHMENT_READ",
                                "DEPTH_STENCIL_ATTACHMENT_WRITE"},
                           "TOP_OF_PIPE", "EARLY_FRAGMENT_TESTS">>

\* C12 witness: the barrier of a TRANSFER_DST to SHADER_READ_ONLY transition
\* over three levels has been executed
C12_Witness ==
    /\ oper = "transition"
    /\ spc = "free"
    /\ oldLayout = "TRANSFER_DST_OPTIMAL"
    /\ newLayout = "SHADER_READ_ONLY_OPTIMAL"
    /\ mipLevels = 3
    /\ \A l \in DOMAIN layouts : layouts[l] = "SHADER_READ_ONLY_OPTIMAL"

\* C13: a transitionImageLayout call with a pair of layouts that is not one
\* of the three supported pairs, until it is left, gets no further than the
\* throw: no barrier is ever recorded in its command buffer, nothing is
\* submitted to the queue and the image keeps its layout.
C13_UnsupportedTransitionFails ==
    (oper = "transition" /\ sret = "s_done" /\ spc # "s_done"
        /\ <<oldLayout, newLayout>> \notin SupportedPairs) =>
        /\ spc \in {"begin", "t_barrier", "s_fatal"}
        /\ singleTime.cmds = <<>>
        /\ singleTime.state # "pending"
        /\ setupLog = <<>>
        /\ \A l \in DOMAIN layouts : layouts[l] = oldLayout

\* C13 witness: the call for COLOR_ATTACHMENT to PRESENT_SRC has thrown
C13_Witness ==
    /\ oper = "transition"
    /\ spc = "s_fatal"
    /\ oldLayout = "COLOR_ATTACHMENT_OPTIMAL"
    /\ newLayout = "PRESENT_SRC_KHR"

\* what a recorded command does to which levels, without masks and stages
Shape(c) ==
    IF c.cmd = "barrier"
    THEN <<"barrier", c.baseMipLevel, c.levelCount, c.oldLayout, c.newLayout>>
    ELSE IF c.cmd = "blit"
    THEN <<"blit", c.srcLevel, c.dstLevel, c.srcLayout, c.dstLayout>>
    ELSE <<"copy", c.level, 1, c.layout, c.layout>>

Shapes(cmds) == [k \in DOMAIN cmds |-> Shape(cmds[k])]

\* the command list C14 describes for n levels: three commands for each of
\* the levels 1 .. n-1, then the barrier of level n-1
MipmapShapes(n) ==
    [k \in 1 .. (3 * (n - 1) + 1) |->
        LET lv == ((k - 1) \div 3) + 1
        IN  IF k = 3 * (n - 1) + 1
            THEN <<"barrier", n - 1, 1, "TRANSFER_DST_OPTIMAL",
                   "SHADER_READ_ONLY_OPTIMAL">>
            ELSE IF k % 3 = 1
            THEN <<"barrier", lv - 1, 1, "TRANSFER_DST_OPTIMAL",
                   "TRANSFER_SRC_OPTIMAL">>
            ELSE IF k % 3 = 2
            THEN <<"blit", lv - 1, lv, "TRANSFER_SRC_OPTIMAL",
                   "TRANSFER_DST_OPTIMAL">>
            ELSE <<"barrier", lv - 1, 1, "TRANSFER_SRC_OPTIMAL",
                   "SHADER_READ_ONLY_OPTIMAL">>]

\* C14: the one command buffer generateMipmaps records holds, for i = 1 ..
\* mipLevels-1 in order, the barrier of level i-1 to TRANSFER_SRC, the blit
\* of level i-1 (TRANSFER_SRC) into level i (TRANSFER_DST) and the barrier of
\* level i-1 to SHADER_READ_ONLY, then the barrier of the last level from
\* TRANSFER_DST to SHADER_READ_ONLY.  When its one submission has been
\* executed, every command has found its levels in the layouts it names and
\* every level is SHADER_READ_ONLY.
C14_MipmapBarriers ==
    (oper = "mipmaps" /\ Recorded) =>
        /\ Shapes(singleTime.cmds) = MipmapShapes(mipLevels)
        /\ spc = "free" =>
              /\ ~layoutHazard
              /\ DOMAIN layouts = 0 .. (mipLevels - 1)
              /\ \A l \in DOMAIN layouts : layouts[l] = "SHADER_READ_ONLY_OPTIMAL"
              /\ setupLog[Len(setupLog)] = singleTime.cmds
              /\ sret = "s_done" => Len(setupLog) = 1

\* C14 witness: generateMipmaps on three levels has had its submission executed
C14_Witness ==
    /\ oper = "mipmaps"
    /\ sret = "s_done"
    /\ spc = "free"
    /\ mipLevels = 3
    /\ Len(singleTime.cmds) = 7

\* the three submissions of createTextureImage, in order
TextureSetupShapes ==
    <<<<<<"barrier", 0, mipLevels, "UNDEFINED", "TRANSFER_DST_OPTIMAL">>>>,
      <<<<"copy", 0, 1, "TRANSFER_DST_OPTIMAL", "TRANSFER_DST_OPTIMAL">>>>,
      MipmapShapes(mipLevels)>>

\* the submissions with commands on the texture: all but the buffer copies
C15_TextureLog ==
    SelectSeq(setupLog, LAMBDA cmds : \A k \in DOMAIN cmds : cmds[k].cmd # "copyBuffer")

\* C15: in initVulkan, once a descriptor set names the texture, and still
\* when initVulkan has returned, every level of the texture is
\* SHADER_READ_ONLY, no one-time command buffer is pending, and before that
\* the queue has executed on the texture exactly: the transition of all levels from
\* UNDEFINED to TRANSFER_DST, the copy into level 0 named TRANSFER_DST, the
\* mipmap commands; every command found its levels in the layout it names.
\* Until initVulkan returns no drawFrame submission has been made.
C15_TextureReadyBeforeSampling ==
    sret # "s_done" =>
        /\ ~layoutHazard
        /\ (descriptorsWritten \/ pc = "loop") =>
              /\ \A l \in DOMAIN layouts : layouts[l] = "SHADER_READ_ONLY_OPTIMAL"
              /\ DOMAIN layouts = 0 .. (mipLevels - 1)
              /\ mipLevels >= 1
              /\ singleTime = NoSingleTime
        /\ spc \in {"tex_view", "descriptors", "init_return"} =>
              /\ [k \in DOMAIN C15_TextureLog |-> Shapes(C15_TextureLog[k])]
                    = TextureSetupShapes
        /\ pc = "loop" => descriptorsWritten
        /\ pc = "init" =>
              /\ graphicsQueue = <<>>
              /\ \A f \in Slots : ~everSubmitted[f]

\* C15 witness: initVulkan has returned with a texture of three levels
C15_Witness ==
    /\ pc = "loop"
    /\ spc = "s_done"
    /\ oper = "none"
    /\ mipLevels = 3
    /\ descriptorsWritten

\* C16: after the window is closed, while cleanup() runs no batch and no
\* present request is outstanding (mainLoop has waited for the device to be
\* idle before cleanup's first destroy call), and the device is alive as
\* long as any object created from it is; nothing outlives the device.
C16_IdleThenDeviceLast ==
    /\ pc \in {"cleanup", "cleanup_rest", "done"} =>
          /\ graphicsQueue = <<>>
          /\ presentQueue = <<>>
          /\ shouldClose
    /\ pc \in {"loop", "idle"} => PersistentObjects \cup SwapchainObjects \subseteq live
    /\ live # {} => Single("device") \in live
    /\ pc = "done" => live = {}

\* C16 witness: cleanup() has destroyed everything but the device
C16_Witness ==
    /\ pc = "cleanup_rest"
    /\ live = {Single("device")}
    /\ created > 1

\* results the specification calls transient
TransientAtPresent == {"VK_ERROR_OUT_OF_DATE_KHR", "VK_SUBOPTIMAL_KHR"}

\* C17: an out-of-date result of vkAcquireNextImageKHR and an out-of-date or
\* suboptimal result of vkQueuePresentKHR are followed by the call of
\* recreateSwapchain and never by a throw of drawFrame, however many such
\* results have been handled before; and after such results the loop can go
\* on: the fence
\* drawFrame waits for is signaled or a submitted batch will signal it, and
\* the swapchain in use has an image to hand out or a present request that
\* will give one back.
C17_TransientsNotFatal ==
    /\ \A i \in LogOps("vkAcquireNextImageKHR") :
          log[i].res = "VK_ERROR_OUT_OF_DATE_KHR" =>
              /\ i < Len(log)
              /\ log[i + 1].op = "recreateSwapchain"
    /\ \A i \in LogOps("vkQueuePresentKHR") :
          log[i].res \in TransientAtPresent =>
              /\ i + 2 <= Len(log)
              /\ log[i + 2].op = "recreateSwapchain"
    /\ \A i \in LogOps("throw") :
          /\ i > 1
          /\ log[i - 1].op = "vkAcquireNextImageKHR" =>
                log[i - 1].res # "VK_ERROR_OUT_OF_DATE_KHR"
          /\ log[i - 1].op = "framebufferResized" =>
                log[i - 2].res \notin TransientAtPresent
    /\ (transients > 0 /\ pc = "wait") =>
          \/ inFlightFences[currentFrame]
          \/ \E k \in DOMAIN graphicsQueue : graphicsQueue[k].fence = currentFrame
    /\ (transients > 0 /\ pc = "acquire") =>
          \/ \E k \in DOMAIN imageState : imageState[k] = "avail"
          \/ \E k \in DOMAIN presentQueue : presentQueue[k].swapchain = swapChain

\* C17 witness: after two transient results, each handled by a recreation, a
\* frame has been submitted and presented with success on the third swapchain
C17_Witness ==
    /\ transients = 2
    /\ created = 3
    /\ pc = "advance"
    /\ LogOps("recreateSwapchain") = {}
    /\ LogOps("vkQueueSubmit") # {}
    /\ \E i \in LogOps("vkQueuePresentKHR") : log[i].res = "VK_SUCCESS"

\* results of vkQueuePresentKHR that drawFrame names
NamedAtPresent == {"VK_SUCCESS"} \cup TransientAtPresent

\* C18: a vkQueuePresentKHR result other than success, out-of-date and
\* suboptimal is followed by a throw and not by recreateSwapchain, whatever
\* framebufferResized holds.
C18_OtherPresentResultFatal ==
    \A i \in LogOps("vkQueuePresentKHR") :
        log[i].res \notin NamedAtPresent =>
            /\ i + 2 <= Len(log)
            /\ log[i + 2].op = "throw"
            /\ LogOps("recreateSwapchain") = {}

\* the part of C18 the code keeps: with framebufferResized clear, such a
\* result is followed by the throw
C18_FatalWhenNotResized ==
    \A i \in LogOps("vkQueuePresentKHR") :
        (log[i].res \notin NamedAtPresent /\ log[i + 1].a = 0) =>
            /\ log[i + 2].op = "throw"
            /\ pc = "fatal"

\* a failed present has been answered with a recreation
C18_ErrorRecreated ==
    \E i \in LogOps("vkQueuePresentKHR") :
        /\ log[i].res = "VK_ERROR_DEVICE_LOST"
        /\ log[i + 1].a = 1
        /\ log[i + 2].op = "recreateSwapchain"
        /\ pc = "loop"

\* results of vkAcquireNextImageKHR that drawFrame names
NamedAtAcquire == {"VK_SUCCESS", "VK_SUBOPTIMAL_KHR", "VK_ERROR_OUT_OF_DATE_KHR"}

\* C19: a vkAcquireNextImageKHR result other than success, suboptimal and
\* out-of-date is followed at once by the throw: the call has written no
\* uniform buffer, reset no fence, recorded and submitted nothing, and has
\* not entered recreateSwapchain.  After a suboptimal result drawFrame goes
\* on exactly as after success: the uniform write comes next, and the call
\* ends in a throw only if recording or submitting fails.
C19_AcquireErrorFatal ==
    \A i \in LogOps("vkAcquireNextImageKHR") :
        /\ log[i].res \notin NamedAtAcquire =>
              /\ Len(log) = i + 1
              /\ log[i + 1].op = "throw"
              /\ pc = "fatal"
              /\ \A j \in DOMAIN log : log[j].op \notin FrameOps \cup {"recreateSwapchain"}
              /\ inFlightFences[currentFrame]
              /\ BatchesUsing(currentFrame) = {}
        /\ log[i].res \in {"VK_SUCCESS", "VK_SUBOPTIMAL_KHR"} =>
              /\ Len(log) = i => pc = "update"
              /\ Len(log) > i => log[i + 1].op = "updateUniformBuffer"
              /\ \A j \in LogOps("throw") :
                    log[j - 1].op \in {"vkResetCommandBuffer", "recordCommandBuffer",
                                      "framebufferResized", "cleanupSwapchain"}

\* a frame whose acquire reported suboptimal has been submitted and presented
C19_SuboptimalPresented ==
    /\ pc = "advance"
    /\ \E i \in LogOps("vkAcquireNextImageKHR") : log[i].res = "VK_SUBOPTIMAL_KHR"
    /\ LogOps("vkQueueSubmit") # {}
    /\ \E i \in LogOps("vkQueuePresentKHR") : log[i].res = "VK_SUCCESS"
    /\ LogOps("recreateSwapchain") = {}

\* C19 witness: an acquire on a slot used before has failed with an error
\* drawFrame does not name
C19_Witness ==
    /\ pc = "fatal"
    /\ \E i \in LogOps("vkAcquireNextImageKHR") : log[i].res = "VK_ERROR_DEVICE_LOST"
    /\ everSubmitted[currentFrame]

\* C20: chooseSwapExtent returns capabilities.currentExtent whenever its
\* width is not 0xFFFFFFFF, whatever its height; otherwise it returns the
\* framebuffer size with the width brought into [minImageExtent.width,
\* maxImageExtent.width] and the height into [minImageExtent.height,
\* maxImageExtent.height]: the value itself when it is inside, the bound it
\* is beyond otherwise.  With the marker, a framebuffer of 1280 x 720 and
\* bounds 1 x 1 .. 4096 x 4096 the result is 1280 x 720.
C20_ChooseSwapExtent ==
    pc = "ext_done" =>
        LET lo == details.minImageExtent
            hi == details.maxImageExtent
            fb == <<winW, winH>>
        IN  /\ details.currentExtent[1] # UINT32_MAX =>
                  swapChainExtent = details.currentExtent
            /\ details.currentExtent[1] = UINT32_MAX =>
                  \A d \in {1, 2} :
                      /\ lo[d] <= swapChainExtent[d]
                      /\ swapChainExtent[d] <= hi[d]
                      /\ (lo[d] <= fb[d] /\ fb[d] <= hi[d]) => swapChainExtent[d] = fb[d]
                      /\ fb[d] < lo[d] => swapChainExtent[d] = lo[d]
                      /\ fb[d] > hi[d] => swapChainExtent[d] = hi[d]
            /\ (details.currentExtent[1] = UINT32_MAX /\ fb = <<1280, 720>>
                    /\ lo = <<1, 1>> /\ hi = <<4096, 4096>>) =>
                  swapChainExtent = <<1280, 720>>

\* C20 witness: with the marker, a framebuffer wider than the upper bound and
\* lower than the lower bound has been clamped in both dimensions
C20_Witness ==
    /\ pc = "ext_done"
    /\ details.currentExtent[1] = UINT32_MAX
    /\ winW > details.maxImageExtent[1]
    /\ winH < details.minImageExtent[2]
    /\ swapChainExtent = <<details.maxImageExtent[1], details.minImageExtent[2]>>

\* the example of C20 has been computed
C20_Example ==
    /\ pc = "ext_done"
    /\ details.currentExtent[1] = UINT32_MAX
    /\ <<winW, winH>> = <<1280, 720>>
    /\ details.minImageExtent = <<1, 1>>
    /\ details.maxImageExtent = <<4096, 4096>>
    /\ swapChainExtent = <<1280, 720>>

\* C21: the image count createSwapChain asks for is minImageCount + 1 when
\* maxImageCount is 0 or minImageCount + 1 <= maxImageCount, and
\* maxImageCount otherwise; minImageCount 2 with maxImageCount 0 gives 3.
C21_ImageCount ==
    (pc = "returned" /\ args.fn = "imageCount") =>
        /\ (args.maxImageCount = 0 \/ args.minImageCount + 1 <= args.maxImageCount)
              => ret.value = args.minImageCount + 1
        /\ (args.maxImageCount # 0 /\ args.minImageCount + 1 > args.maxImageCount)
              => ret.value = args.maxImageCount
        /\ (args.minImageCount = 2 /\ args.maxImageCount = 0) => ret.value = 3

\* C21 witness: minImageCount 2 and no upper limit have given 3
C21_Witness ==
    /\ pc = "returned"
    /\ args.fn = "imageCount"
    /\ args.minImageCount = 2
    /\ args.maxImageCount = 0
    /\ ret.value = 3

\* the limit has been taken: minImageCount 3, maxImageCount 3
C21_Limited ==
    /\ pc = "returned"
    /\ args.fn = "imageCount"
    /\ args.minImageCount = 3
    /\ args.maxImageCount = 3
    /\ ret.value = 3

\* the format chooseSwapSurfaceFormat prefers
PreferredFormat ==
    [format |-> "VK_FORMAT_B8G8R8A8_SRGB",
     colorSpace |-> "VK_COLOR_SPACE_SRGB_NONLINEAR_KHR"]

\* C22: for a non-empty list, chooseSwapSurfaceFormat returns the entry
\* B8G8R8A8_SRGB with SRGB_NONLINEAR if the list has one (all such entries
\* are equal, so the first of them), and the first entry of the list
\* otherwise.
C22_SurfaceFormat ==
    (pc = "returned" /\ args.fn = "chooseSwapSurfaceFormat") =>
        LET list == args.availableFormats
        IN  /\ (\E i \in DOMAIN list : list[i] = PreferredFormat)
                  => ret.value = PreferredFormat
            /\ (\A i \in DOMAIN list : list[i] # PreferredFormat)
                  => ret.value = list[1]

\* C22 witness: the preferred entry has been found behind an entry of the
\* same format with another color space
C22_Witness ==
    /\ pc = "returned"
    /\ args.fn = "chooseSwapSurfaceFormat"
    /\ Len(args.availableFormats) = 3
    /\ args.availableFormats[1].format = "VK_FORMAT_B8G8R8A8_SRGB"
    /\ args.availableFormats[1] # PreferredFormat
    /\ args.availableFormats[3] = PreferredFormat
    /\ ret.value = PreferredFormat

\* what C23 asks of a device
C23_Qualifies(device) ==
    /\ device.deviceType = "VK_PHYSICAL_DEVICE_TYPE_DISCRETE_GPU"
    /\ \E i \in DOMAIN device.queueFamilies : device.queueFamilies[i].graphics
    /\ \E i \in DOMAIN device.queueFamilies : device.queueFamilies[i].present
    /\ device.extensionsSupported
    /\ device.formats
    /\ device.presentModes
    /\ device.samplerAnisotropy

\* C23: pickPhysicalDevice selects the first device in enumeration order
\* that is a discrete GPU with a graphics family, a present family, the
\* required extensions, non-empty format and present-mode lists and
\* anisotropic sampling; it skips no such device, and throws if there is none.
C23_FirstQualifyingDevice ==
    (pc \in {"returned", "fatal"} /\ args.fn = "pickPhysicalDevice") =>
        LET devices == args.devices
            qualifying == {i \in DOMAIN devices : C23_Qualifies(devices[i])}
        IN  /\ qualifying = {} => ret.thrown
            /\ qualifying # {} =>
                  /\ ~ret.thrown
                  /\ ret.value \in qualifying
                  /\ \A i \in qualifying : ret.value <= i

\* the same with what the code asks in addition: a geometry shader
C23_FirstWithGeometryShader ==
    (pc \in {"returned", "fatal"} /\ args.fn = "pickPhysicalDevice") =>
        LET devices == args.devices
            qualifying == {i \in DOMAIN devices :
                              C23_Qualifies(devices[i]) /\ devices[i].geometryShader}
        IN  /\ qualifying = {} => ret.thrown
            /\ qualifying # {} =>
                  /\ ~ret.thrown
                  /\ ret.value \in qualifying
                  /\ \A i \in qualifying : ret.value <= i

\* a device that has all C23 asks for has been skipped for the one behind it
C23_Skipped ==
    /\ pc = "returned"
    /\ args.fn = "pickPhysicalDevice"
    /\ C23_Qualifies(args.devices[1])
    /\ ret.value = 2

\* the indices C24 calls satisfying: bit i of the filter is set and memory
\* type i has every requested flag
C24_Satisfying ==
    {i \in 0 .. (Len(args.memoryTypes) - 1) :
        /\ (args.typeFilter \div (2 ^ i)) % 2 = 1
        /\ args.properties \subseteq args.memoryTypes[i + 1]}

\* C24: findMemoryType returns the least index i such that bit i of the
\* filter is set and memory type i has all requested property flags, and
\* throws when no index satisfies both.
C24_LeastMemoryType ==
    (pc \in {"returned", "fatal"} /\ args.fn = "findMemoryType") =>
        /\ C24_Satisfying = {} => (ret.thrown /\ pc = "fatal")
        /\ C24_Satisfying # {} =>
              /\ ~ret.thrown
              /\ ret.value \in C24_Satisfying
              /\ \A i \in C24_Satisfying : ret.value <= i

\* C24 witness: index 2 has been returned past a type the filter excludes
\* and a type that has only one of the two requested flags
C24_Witness ==
    /\ pc = "returned"
    /\ args.fn = "findMemoryType"
    /\ Len(args.memoryTypes) = 3
    /\ Cardinality(args.properties) = 2
    /\ args.typeFilter = 6
    /\ args.memoryTypes[1] = args.properties
    /\ Cardinality(args.memoryTypes[2]) = 1
    /\ ret.value = 2

\* findMemoryType has thrown although the filter has a bit set
C24_NoneFits ==
    /\ pc = "fatal"
    /\ args.fn = "findMemoryType"
    /\ args.typeFilter = 7
    /\ Len(args.memoryTypes) = 3
    /\ ret.thrown

\* createTextureImage has loaded a texture and computed mipLevels
TextureLoaded ==
    /\ sret # "s_done"
    /\ texWidth >= 1
    /\ spc # "tex_load"
    /\ ~(spc = "s_fatal" /\ stagingBuffer = "none")

\* the larger side of the texture
LargerSide == IF texWidth >= texHeight THEN texWidth ELSE texHeight

\* C25: for a texture of W x H, W, H >= 1, createTextureImage's mipLevels is
\* floor(log2(max(W, H))) + 1: the number L with 2^(L-1) <= max(W, H) < 2^L.
C25_MipLevelCount ==
    TextureLoaded =>
        /\ mipLevels >= 1
        /\ 2 ^ (mipLevels - 1) <= LargerSide
        /\ LargerSide < 2 ^ mipLevels

\* C25 witness: a texture of 1 x 4 has been given three levels
C25_Witness ==
    /\ TextureLoaded
    /\ spc = "tex_staging"
    /\ texWidth = 1
    /\ texHeight = 4
    /\ mipLevels = 3

\* max(v / 2, 1) with integer division
C26_Halved(v) == IF v \div 2 >= 1 THEN v \div 2 ELSE 1

\* extent of level k, starting from (texWidth, texHeight) for level 0
RECURSIVE C26_LevelExtent(_)
C26_LevelExtent(k) ==
    IF k = 0 THEN <<texWidth, texHeight>>
    ELSE LET prev == C26_LevelExtent(k - 1)
         IN  <<C26_Halved(prev[1]), C26_Halved(prev[2])>>

\* the blits generateMipmaps has recorded so far, in order
C26_Blits == SelectSeq(singleTime.cmds, LAMBDA c : c.cmd = "blit")

\* generateMipmaps is inside or past its loop
C26_InLoop == spc \in {"m_loop", "m_toSrc", "m_blit", "m_toRead", "m_last"}

\* C26: in generateMipmaps, starting from (texWidth, texHeight) for level 0,
\* the i-th blit reads level i-1 at its full extent (w, h) and writes level i
\* with extent (max(w/2, 1), max(h/2, 1)), for every i in 1 .. mipLevels-1;
\* the running width and height never drop below 1.
C26_MipExtents ==
    /\ \A i \in 1 .. Len(C26_Blits) :
          /\ i <= mipLevels - 1
          /\ C26_Blits[i].srcLevel = i - 1
          /\ C26_Blits[i].dstLevel = i
          /\ C26_Blits[i].srcExtent = C26_LevelExtent(i - 1)
          /\ C26_Blits[i].dstExtent = C26_LevelExtent(i)
    /\ C26_InLoop =>
          /\ mipWidth >= 1
          /\ mipHeight >= 1
          /\ <<mipWidth, mipHeight>> = C26_LevelExtent(mipIndex - 1)
          /\ Len(C26_Blits) = (IF spc \in {"m_toRead"} THEN mipIndex ELSE mipIndex - 1)
    /\ spc = "m_last" => Len(C26_Blits) = mipLevels - 1

\* C26 witness: a 4 x 1 texture with three levels has been blitted
\* 4x1 -> 2x1 -> 1x1, the height staying at 1
C26_Witness ==
    /\ spc = "m_last"
    /\ texWidth = 4
    /\ texHeight = 1
    /\ mipLevels = 3
    /\ Len(C26_Blits) = 2
    /\ C26_Blits[2].srcExtent = <<2, 1>>
    /\ C26_Blits[2].dstExtent = <<1, 1>>
    /\ mipHeight = 1

\* loadModel has returned
C27_Loaded == pc = "returned" /\ args.fn = "loadModel"

\* the per-face vertices of the call, in order
C27_FaceVertices ==
    [k \in DOMAIN args.meshIndices |-> MakeVertex(args.attrib, args.meshIndices[k])]

\* C27: for every sequence of per-face vertices processed by loadModel,
\* including sequences with repeated (position, color, texcoord) tuples, the
\* resulting vertex array contains no two equal tuples.
C27_NoEqualTuples ==
    C27_Loaded =>
        \A i, j \in DOMAIN ret.value.vertices :
            i # j => ~VertexEquals(ret.value.vertices[i], ret.value.vertices[j])

\* what the vertex array does hold: each per-face vertex once, and once more
\* where it occurs first
C27_OnePerFaceVertexAndFirst ==
    C27_Loaded =>
        LET distinct == {C27_FaceVertices[k] : k \in DOMAIN C27_FaceVertices}
        IN  Len(ret.value.vertices) = Len(C27_FaceVertices) + Cardinality(distinct)

\* a single face vertex has been loaded and the array holds it twice
C27_SingleVertexTwice ==
    /\ C27_Loaded
    /\ Len(args.meshIndices) = 1
    /\ Len(ret.value.vertices) = 2
    /\ ret.value.vertices[1] = ret.value.vertices[2]

\* C28: for every sequence of per-face vertices processed by loadModel, every
\* entry of the index array is a valid position of the vertex array, and
\* vertices[indices[k]] for each k in order is the original per-face vertex
\* sequence.
C28_IndicesRoundTrip ==
    C27_Loaded =>
        /\ Len(ret.value.indices) = Len(C27_FaceVertices)
        /\ \A k \in DOMAIN ret.value.indices :
              /\ ret.value.indices[k] >= 0
              /\ ret.value.indices[k] < Len(ret.value.vertices)
              /\ ret.value.vertices[ret.value.indices[k] + 1] = C27_FaceVertices[k]

\* C28 witness: three face vertices, the third repeating the first through
\* other attribute entries of equal value, the second different
C28_Witness ==
    /\ C27_Loaded
    /\ Len(args.meshIndices) = 3
    /\ args.meshIndices[1] # args.meshIndices[3]
    /\ C27_FaceVertices[1] = C27_FaceVertices[3]
    /\ C27_FaceVertices[1] # C27_FaceVertices[2]
    /\ ret.value.indices[1] = ret.value.indices[3]
    /\ ret.value.indices[1] # ret.value.indices[2]

\* the host is inside an upload operation, between the creation of its
\* staging buffer and the point where it destroys it, callees included
C29_Staged ==
    \/ spc \in {"tex_image", "tex_copy", "tex_unstage", "vb_buffer", "vb_unstage",
                "ib_buffer", "ib_unstage"}
    \/ sret \in {"tex_copy", "tex_unstage", "vb_unstage", "ib_unstage"}

\* the command list reads the staging buffer
C29_ReadsStaging(cmds) ==
    \E k \in DOMAIN cmds : cmds[k].cmd \in {"copy", "copyBuffer"}

C29_LiveAtThrow == spc = "s_fatal" /\ stagingBuffer = "live"

\* the host is inside recreateSwapchain
C30_InRecreate ==
    pc \in {"rc_size", "rc_get", "rc_wait", "rc_idle", "rc_cleanup", "rc_swapchain",
            "rc_views", "rc_color", "rc_depth", "rc_fb"}

\* what is not swapchain-dependent: the persistent objects that exist (render
\* pass, pipeline and layout, descriptor sets and what they name, uniform
\* buffers, texture, vertex and index buffers, per-slot objects), the state
\* of the per-slot command buffers, semaphores, fences and uniform buffers,
\* and currentFrame
C30_NotSwapchainDependent ==
    <<live \cap PersistentObjects, commandBuffers, imageAvailableSemaphores,
      renderFinishedSemaphores, inFlightFences, uniformBuffersMappped, currentFrame>>

\* C30: no step the host takes inside recreateSwapchain, from its first
\* statement to its return or throw, changes anything that is not
\* swapchain-dependent: the render pass, the pipeline and its layout, the
\* per-slot command buffers, semaphores and fences, the descriptor sets and
\* uniform buffers, the texture, the vertex and index buffers and
\* currentFrame are the same objects in the same state (only the GPU,
\* finishing work while vkDeviceWaitIdle waits, moves their state).
C30_RecreatePreserves ==
    [][(C30_InRecreate /\ pc' # pc) => UNCHANGED C30_NotSwapchainDependent]_vars

\* C30 witness: recreateSwapchain has returned on the present path, with a
\* new swapchain and every persistent object still there
C30_Witness ==
    /\ pc = "advance"
    /\ log[Len(log)].op = "createFramebuffers"
    /\ created >= 2
    /\ PersistentObjects \subseteq live
    /\ renderPass \in live

\* positions of the commands of that name in a recorded command list
C31_At(cmds, name) == {k \in DOMAIN cmds : cmds[k].cmd = name}

\* the only command of that name in the list
C31_The(cmds, name) == cmds[CHOOSE k \in C31_At(cmds, name) : TRUE]

\* the draw call is recorded once, inside the one render pass, after the
\* pipeline, the vertex buffer, the index buffer and a descriptor set were bound
C31_DrawInsidePass(cmds) ==
    /\ \A name \in {"vkCmdBeginRenderPass", "vkCmdEndRenderPass", "vkCmdDrawIndexed",
                     "vkCmdBindPipeline", "vkCmdBindVertexBuffers",
                     "vkCmdBindIndexBuffer", "vkCmdBindDescriptorSets"} :
          Cardinality(C31_At(cmds, name)) = 1
    /\ \A d \in C31_At(cmds, "vkCmdDrawIndexed") :
          /\ \A b \in C31_At(cmds, "vkCmdBeginRenderPass") : b < d
          /\ \A e \in C31_At(cmds, "vkCmdEndRenderPass") : d < e
          /\ \A name \in {"vkCmdBindPipeline", "vkCmdBindVertexBuffers",
                           "vkCmdBindIndexBuffer", "vkCmdBindDescriptorSets"} :
                \A k \in C31_At(cmds, name) : k < d
    /\ C31_The(cmds, "vkCmdBindPipeline").obj.kind = "graphicsPipeline"
    /\ C31_The(cmds, "vkCmdBindVertexBuffers").obj.kind = "vertexBuffer"
    /\ C31_The(cmds, "vkCmdBindIndexBuffer").obj.kind = "indexBuffer"

\* C31: every command buffer recordCommandBuffer has recorded targets the
\* framebuffer of the image index this drawFrame acquired and binds the
\* descriptor set of the current frame slot; the slot recorded is the slot
\* whose uniform buffer this drawFrame has written, whose command buffer it
\* submits and whose fence it passes to the submission; the draw call is
\* recorded inside the render pass, after the pipeline, vertex buffer, index
\* buffer and descriptor set have been bound.
C31_RecordTargets ==
    /\ \A i \in LogOps("recordCommandBuffer") :
          LET f == log[i].a
              cb == commandBuffers[f]
          IN  /\ f = EntrySlot
              /\ LogOps("advance") = {} => f = currentFrame
              /\ log[2].op = "vkAcquireNextImageKHR"
              /\ log[i].b = log[2].b
              /\ \E j \in LogOps("updateUniformBuffer") : j < i /\ log[j].a = f
              /\ \A k \in LogOps("vkQueueSubmit") :
                    k > i /\ log[k].a = f /\ log[k].b = f
              /\ (LogOps("recreateSwapchain") = {} /\ LogOps("advance") = {}) =>
                    /\ cb.state # "initial"
                    /\ log[i].b \in DOMAIN swapChainFramebuffers
                    /\ C31_The(cb.cmds, "vkCmdBeginRenderPass").obj
                          = swapChainFramebuffers[log[2].b]
                    /\ cb.framebuffer = swapChainFramebuffers[log[2].b]
    /\ \A f \in Slots :
          commandBuffers[f].state # "initial" =>
              /\ C31_DrawInsidePass(commandBuffers[f].cmds)
              /\ C31_The(commandBuffers[f].cmds, "vkCmdBindDescriptorSets").obj
                    = descriptorSets[f]
              /\ commandBuffers[f].descriptorSet = descriptorSets[f]
              /\ uniformBuffers[f] \in descriptorSets[f].from

\* C31 witness: slot 1 has recorded its command buffer for image 1 and
\* submitted it, while slot 0's command buffer, recorded for another image,
\* is still there
C31_Witness ==
    /\ pc = "present"
    /\ currentFrame = 1
    /\ LogOps("recordCommandBuffer") # {}
    /\ LogOps("vkQueueSubmit") # {}
    /\ log[2].b = 1
    /\ commandBuffers[0].state # "initial"
    /\ commandBuffers[0].framebuffer # commandBuffers[1].framebuffer

\* generateMipmaps is running, or has thrown, on a format without
\* linear-filter blit support
C32_NoLinearBlit == oper = "mipmaps" /\ ~formatLinear

\* the command list holds a command generateMipmaps records
C32_MipmapCommands(cmds) ==
    \E k \in DOMAIN cmds :
        \/ cmds[k].cmd = "blit"
        \/ cmds[k].cmd = "barrier" /\ cmds[k].oldLayout # "UNDEFINED"

\* C32: if the image format does not support linear-filter blitting with
\* optimal tiling, generateMipmaps throws at its format check: its step from
\* the check goes to the fatal state with no one-time command buffer
\* allocated and with the submissions, the image's layouts and the live
\* objects unchanged; at no time has generateMipmaps a command buffer, and no
\* barrier or blit of its own is recorded or submitted.
C32_NoBlitSupportFatal ==
    /\ [][(spc = "m_check" /\ ~formatLinear) =>
              /\ spc' = "s_fatal"
              /\ singleTime = NoSingleTime
              /\ UNCHANGED <<singleTime, setupLog, layouts, layoutHazard, live>>]_vars
    /\ [](C32_NoLinearBlit =>
              /\ spc \in {"m_check", "s_fatal"}
              /\ singleTime = NoSingleTime
              /\ \A k \in DOMAIN setupLog : ~C32_MipmapCommands(setupLog[k])
              /\ \A l \in DOMAIN layouts : layouts[l] = "TRANSFER_DST_OPTIMAL")

\* C32 witness: createTextureImage has uploaded a 4 x 4 texture and
\* generateMipmaps has thrown on the format check
C32_Witness ==
    /\ C32_NoLinearBlit
    /\ spc = "s_fatal"
    /\ texWidth = 4
    /\ mipLevels = 3
    /\ Len(setupLog) = 2
    /\ stagingBuffer = "destroyed"

\* a batch on the graphics queue will signal fence f
C33_BatchFor(f) == \E k \in DOMAIN graphicsQueue : graphicsQueue[k].fence = f

\* drawFrame has returned without throwing, or has not been called yet
C33_BetweenFrames == pc \in {"loop", "poll", "wait"}

\* C33: at every non-fatal return from drawFrame each slot's fence is
\* signaled or a batch submitted with it is on the graphics queue, and the
\* batch at the head of the queue can always execute; so, with a device that
\* completes every submitted batch, every fence wait at the top of drawFrame
\* returns, for every interleaving of successful frames, out-of-date aborts
\* and swapchain recreations.
C33_NoFenceDeadlock ==
    /\ [](C33_BetweenFrames =>
              \A f \in Slots : inFlightFences[f] \/ C33_BatchFor(f))
    /\ []((Running /\ graphicsQueue # <<>>) => ENABLED GpuComplete)
    /\ (pc = "wait") ~> (pc # "wait")

\* C33 witness: after an out-of-date abort and a recreation the host stands
\* at the fence wait of a slot whose batch the device has not completed
C33_Witness ==
    /\ pc = "wait"
    /\ ~inFlightFences[currentFrame]
    /\ C33_BatchFor(currentFrame)
    /\ created >= 2
    /\ transients >= 1

\* present requests that have not yet completed their wait on
\* render-finished semaphore f
C34_WaitingPresents(f) == {k \in DOMAIN presentQueue : presentQueue[k].waitSemaphore = f}

\* C34: once drawFrame has submitted the batch that signals render-finished
\* semaphore f (and has not yet queued this frame's present), no present
\* request that waits on that semaphore is still outstanding: the present
\* of the slot's previous frame has completed its wait before the semaphore
\* is signaled again.
C34_RenderFinishedNotReused ==
    pc = "present" => C34_WaitingPresents(currentFrame) = {}

\* the same for a swapchain of at most MAX_FRAMES_IN_FLIGHT images that was
\* never recreated: there the acquire cannot return before the presentation
\* engine has released an image, and with it consumed the semaphore
C34_HoldsWithTwoImages ==
    (pc = "present" /\ Cardinality(DOMAIN swapChainImages) <= MAX_FRAMES_IN_FLIGHT /\ created = 1) =>
        C34_WaitingPresents(currentFrame) = {}

\* slot 0 has submitted again while the present request of its previous
\* frame still waits on render-finished semaphore 0
C34_ReusedWhileWaited ==
    /\ pc = "present"
    /\ currentFrame = 0
    /\ C34_WaitingPresents(0) # {}
    /\ created = 1
    /\ events = MaxEvents

\* batches on the graphics queue that wait on image-available semaphore f
C35_Waiters(f) == {k \in DOMAIN graphicsQueue : graphicsQueue[k].waitSemaphore = f}

\* the part of drawFrame between a successful acquire and the submit
C35_BeforeSubmit == pc \in {"update", "resetFence", "resetCmd", "record", "submit"}

\* C35: image-available semaphore f is unsignaled and has no pending wait
\* whenever drawFrame hands it to vkAcquireNextImageKHR; a signal an acquire
\* queued on it is waited on by exactly one submitted batch (the one the same
\* drawFrame call submits), and every submitted batch has such a signal to
\* wait on.
C35_ImageAvailableConsumed ==
    /\ pc = "acquire" =>
          /\ imageAvailableSemaphores[currentFrame] = "unsignaled"
          /\ C35_Waiters(currentFrame) = {}
    /\ \A f \in Slots :
          /\ Cardinality(C35_Waiters(f)) <= 1
          /\ C35_Waiters(f) # {} => imageAvailableSemaphores[f] = "signaled"
          /\ (Running /\ imageAvailableSemaphores[f] = "signaled" /\ C35_Waiters(f) = {}) =>
                (f = currentFrame /\ C35_BeforeSubmit)

\* slot 0 is at its acquire again after an out-of-date abort and a
\* recreation, with a frame of that slot submitted before
C35_Witness ==
    /\ pc = "acquire"
    /\ currentFrame = 0
    /\ everSubmitted[0]
    /\ transients >= 1
    /\ created >= 2

\* what executing a recorded command buffer touches: the framebuffer of its
\* render pass, the views and render pass the framebuffer was created from,
\* and the images behind the views
C36_References(cb) ==
    {cb.framebuffer} \cup cb.framebuffer.from
    \cup UNION {o.from : o \in cb.framebuffer.from}

\* C36: every command buffer of a batch outstanding on the graphics queue is
\* executable and references only live objects; the command buffer drawFrame
\* submits was recorded in the same call against the framebuffer of the
\* acquired image in the current swapchain generation, which is live at the
\* submit and at the present call.
C36_NoDestroyedFramebufferInFlight ==
    /\ \A k \in DOMAIN graphicsQueue :
          LET cb == commandBuffers[graphicsQueue[k].commandBuffer]
          IN  /\ cb.state = "executable"
              /\ C36_References(cb) \subseteq live
    /\ pc \in {"submit", "present"} =>
          LET cb == commandBuffers[currentFrame]
          IN  /\ \E i \in LogOps("recordCommandBuffer") :
                    log[i].a = currentFrame /\ log[i].b = imageIndex
              /\ cb.state = "executable"
              /\ cb.framebuffer = swapChainFramebuffers[imageIndex]
              /\ cb.framebuffer.gen = created
              /\ C36_References(cb) \subseteq live

\* after a recreation a batch is outstanding while the other slot's command
\* buffer still holds its recording against a destroyed framebuffer
C36_Witness ==
    /\ created >= 2
    /\ graphicsQueue # <<>>
    /\ \E f \in Slots :
          /\ commandBuffers[f].state = "executable"
          /\ commandBuffers[f].framebuffer \notin live
          /\ commandBuffers[f].framebuffer.gen < created

\* C37: when drawFrame has just called recreateSwapchain, from the acquire
\* path or from the present path, framebufferResized is false.
C37_RecreateCalledWithFlagCleared ==
    pc = "rc_size" => ~framebufferResized

\* the call on the present path is made with the flag cleared
C37_PresentPathCleared ==
    (pc = "rc_size" /\ retTo = "present") => ~framebufferResized

\* the call on the acquire path leaves the flag as the resize callback set it
C37_AcquirePathFlagSet ==
    /\ pc = "rc_size"
    /\ retTo = "acquire"
    /\ framebufferResized

\* the only step that clears the flag is the present-path branch of drawFrame
C37_ClearedOnlyAtPresent ==
    [][(framebufferResized /\ ~framebufferResized') => pc = "present"]_vars

\* drawFrame has returned from the acquire-path recreation that served the
\* resize, and the flag is still set: the next present recreates once more
C37_FlagSurvivesRecreation ==
    /\ pc = "loop"
    /\ created = 2
    /\ framebufferResized
    /\ \E i \in LogOps("vkAcquireNextImageKHR") : log[i].res = "VK_ERROR_OUT_OF_DATE_KHR"
    /\ LogOps("cleanupSwapchain") # {}

\* initVulkan has returned and no recreateSwapchain is between its
\* createSwapChain and its createFramebuffers, nor was ended there by a throw
C38_SwapchainComplete ==
    pc \notin {"rc_views", "rc_color", "rc_depth", "rc_fb", "fatal"}

\* C38: outside a recreation the framebuffer, image-view and swapchain image
\* arrays have the same length and framebuffer i wraps view i of image i;
\* the per-slot arrays have MAX_FRAMES_IN_FLIGHT entries; currentFrame is
\* below MAX_FRAMES_IN_FLIGHT; and the image index recordCommandBuffer
\* selects a framebuffer with is below the framebuffer count.
C38_ArraysConsistent ==
    /\ C38_SwapchainComplete =>
          /\ DOMAIN swapChainFramebuffers = DOMAIN swapChainImageViews
          /\ DOMAIN swapChainImageViews = DOMAIN swapChainImages
          /\ DOMAIN swapChainImages = 0 .. (Cardinality(DOMAIN swapChainImages) - 1)
          /\ \A i \in DOMAIN swapChainFramebuffers :
                /\ swapChainImageViews[i] \in swapChainFramebuffers[i].from
                /\ swapChainImageViews[i].from = {swapChainImages[i]}
                /\ \A j \in DOMAIN swapChainImageViews :
                      j # i => swapChainImageViews[j] \notin swapChainFramebuffers[i].from
    /\ \A perSlot \in {DOMAIN commandBuffers, DOMAIN inFlightFences,
                        DOMAIN imageAvailableSemaphores, DOMAIN renderFinishedSemaphores,
                        DOMAIN uniformBuffersMappped, DOMAIN descriptorSets,
                        DOMAIN uniformBuffers} :
          perSlot = 0 .. (MAX_FRAMES_IN_FLIGHT - 1)
    /\ currentFrame \in 0 .. (MAX_FRAMES_IN_FLIGHT - 1)
    /\ pc = "record" =>
          /\ imageIndex \in DOMAIN swapChainFramebuffers
          /\ imageIndex < Cardinality(DOMAIN swapChainFramebuffers)

\* slot 1 records against the last of three framebuffers after a recreation
C38_Witness ==
    /\ pc = "record"
    /\ created >= 2
    /\ currentFrame = MAX_FRAMES_IN_FLIGHT - 1
    /\ Cardinality(DOMAIN swapChainFramebuffers) = MAX_FRAMES_IN_FLIGHT + 1
    /\ imageIndex = MAX_FRAMES_IN_FLIGHT

\* the process has ended: cleanup has run, or an exception has ended it
C39_Ended == pc \in {"done", "fatal"}

\* C39: once glfwWindowShouldClose is true the host leaves the frame loop,
\* waits for the device and runs cleanup (unless an exception ends the
\* process first), given that the host keeps running and the GPU and the
\* presentation engine complete what is queued.
C39_CloseLeadsToCleanup ==
    shouldClose ~> C39_Ended

\* the same when the close is signaled with the window at a drawable size,
\* no resize pending and no further window event or error following, on a
\* swapchain of MAX_FRAMES_IN_FLIGHT images that was never recreated
C39_CloseWhileVisible ==
    (/\ shouldClose
     /\ ~ZeroSize(winW, winH)
     /\ events = 0
     /\ ~framebufferResized
     /\ created = 1
     /\ Cardinality(DOMAIN swapChainImages) = MAX_FRAMES_IN_FLIGHT
     /\ pc \notin {"rc_size", "rc_get", "rc_wait", "rc_idle"}) ~> C39_Ended

\* the close was signaled while the host is inside the wait-for-nonzero-size
\* loop of recreateSwapchain with the window still minimized
C39_ClosedInsideWaitLoop ==
    /\ shouldClose
    /\ pc = "rc_wait"
    /\ ZeroSize(width, height)
    /\ ZeroSize(winW, winH)
    /\ graphicsQueue = <<>>
    /\ presentQueue = <<>>

\* C40: when the operation that called beginSingleTimeCommands has returned
\* or failed, its one-shot command buffer has been freed: none is left
\* allocated, recording or pending in the command pool.
C40_OneShotFreed ==
    spc \in {"s_done", "s_fatal"} => singleTime = NoSingleTime

\* an operation that returns has freed its command buffer, and the only
\* failure that leaves one behind is the unsupported-pair throw of
\* transitionImageLayout
C40_FreedUnlessUnsupported ==
    /\ spc = "s_done" => singleTime = NoSingleTime
    /\ (spc = "s_fatal" /\ singleTime # NoSingleTime) =>
          /\ oper = "transition"
          /\ <<oldLayout, newLayout>> \notin SupportedPairs
          /\ singleTime.state = "recording"
          /\ singleTime.cmds = <<>>

\* transitionImageLayout has thrown for an unsupported pair and the command
\* buffer beginSingleTimeCommands allocated is still recording
C40_LeftRecording ==
    /\ spc = "s_fatal"
    /\ oper = "transition"
    /\ <<oldLayout, newLayout>> \notin SupportedPairs
    /\ singleTime.state = "recording"

====
